---- MODULE Spec2Model ----
(***************************************************************************)
(* Model of the graph-assembly subsystem of the Cluster-Insight collector  *)
(* (collector/context.py, collector/global_state.py): the thread-safe      *)
(* ContextGraph accumulator, the worker pool draining a priority queue,    *)
(* the graph builder _do_compute_graph, and compute_graph with its         *)
(* bounded semaphore.                                                      *)
(*                                                                         *)
(* Conventions.  A timestamp is an ISO-8601 string in the program; only    *)
(* its order and equality matter, so it is an integer here: values >= 1    *)
(* are non-empty strings, EmptyString is '' and None is Python's None.     *)
(* utilities.now() has microsecond resolution, every reading is modelled   *)
(* as a new, larger value of clock.  A resource id such as 'Node:n1' is    *)
(* the pair <<"Node", "n1">>.                                              *)
(***************************************************************************)
EXTENDS Integers, Sequences, FiniteSets, TLC

VARIABLES
  clock,        \* the wall clock read by utilities.now()
  graph,        \* graph[b]: the ContextGraph g of caller b's current build
  callLog,      \* history: the ContextGraph calls in the order they took the lock
  lastCall,     \* history: the most recent ContextGraph call and what it saw
  world,        \* the backend data the fetch routines return
  gs,           \* the GlobalState object
  build,        \* build[b]: caller b's compute_graph call (its locals, queues, workers)
  buildLog      \* history: the compute_graph calls that have ended, in order

vars == <<clock, graph, callLog, lastCall, world, gs, build, buildLog>>

----------------------------------------------------------------------------
(* Bounds of the model. *)

\* number of ContextGraph calls explored by SpecGraph
MaxCalls == 4
\* number of compute_graph calls explored by Spec, SpecPool and SpecGate
MaxBuilds == 3
PoolBuilds == 1
GateBuilds == 3
QueueBuilds == 3
\* the timestamps 0..MaxTime of the SimpleCache calls explored by SpecCache
MaxTime == 2
\* the add_elapsed calls of a behaviour, and the capacity of the elapsed time
\* queue explored in the place of MAX_ELAPSED_QUEUE_SIZE (1000)
MaxElapsed == 3
ElapsedQueueSize == 2
\* the get_random_priority calls of a behaviour
MaxPriorityCalls == 3
\* the requests of a behaviour of SpecRender
RenderBuilds == 2
\* the fill_cache runs and the requests of SpecProxy
MaxFills == 2
MaxRequests == 2

----------------------------------------------------------------------------
(* Program constants (constants.py, context.py). *)

MIN_CONCURRENT_WORKERS == 2
MAX_CONCURRENT_WORKERS == 10
MAX_CONCURRENT_COMPUTE_GRAPH == 2
\* the priority of the sentinel (0, None, None)
SentinelPriority == 0
\* production priorities are random.randint(0, MAX_PRIORITY)
MAX_PRIORITY == 1000
\* docker_proxy.py: the maximal age of container information in the cache
MAX_CONTAINER_AGE_SECONDS == 3600
MAX_CLEANUP_AGE_SECONDS == 10 * MAX_CONTAINER_AGE_SECONDS

----------------------------------------------------------------------------
(* Python values. *)

None == 0 - 1
EmptyString == 0
NoneStr == "<None>"

\* utilities.valid_string applied to a timestamp value
valid_string(x) == x # None /\ x # EmptyString

\* dict.get(key): the value, or None when the key is absent
DictGet(d, key) == IF key \in DOMAIN d THEN d[key] ELSE None

\* d[key] = value
DictPut(d, key, value) ==
  [k \in DOMAIN d \cup {key} |-> IF k = key THEN value ELSE d[k]]

EmptyDict == [k \in {} |-> None]

----------------------------------------------------------------------------
(* class ContextGraph *)

\* ContextGraph.__init__
NewContextGraph ==
  [ context_resources |-> <<>>,
    context_relations |-> <<>>,
    version |-> NoneStr,
    id_set |-> {},
    previous_relations_to_timestamps |-> EmptyDict,
    current_relations_to_timestamps |-> EmptyDict ]

\* ContextGraph.set_version
set_version(g, version) == [g EXCEPT !.version = version]

\* a mutant of set_relations_to_timestamps: the snapshot is dropped
set_relations_to_timestamps_dropped(g, d) == g

\* ContextGraph.set_relations_to_timestamps
set_relations_to_timestamps(g, d) ==
  [g EXCEPT !.previous_relations_to_timestamps = d]

\* ContextGraph.get_relations_to_timestamps
get_relations_to_timestamps(g) == g.current_relations_to_timestamps

\* the annotations of a stored resource: a deep copy of the caller's, with
\* createdBy stamped when a version is set
StampedAnnotations(g, annotations) ==
  IF g.version # NoneStr
    THEN [label |-> annotations.label, createdBy |-> g.version]
    ELSE [label |-> annotations.label]

\* a mutant of add_resource: the id_set test is missing
add_resource_no_dedup(g, rid, annotations, rtype, timestamp, obj) ==
  [g EXCEPT
     !.context_resources = Append(@,
        [ id |-> rid, type |-> rtype, timestamp |-> timestamp,
          annotations |-> StampedAnnotations(g, annotations),
          properties |-> obj ]),
     !.id_set = @ \cup {rid}]

\* ContextGraph.add_resource (the whole body runs under self._lock)
add_resource(g, rid, annotations, rtype, timestamp, obj) ==
  IF rid \in g.id_set
    THEN g
    ELSE [g EXCEPT
            !.context_resources = Append(@,
               [ id |-> rid, type |-> rtype, timestamp |-> timestamp,
                 annotations |-> StampedAnnotations(g, annotations),
                 properties |-> obj ]),
            !.id_set = @ \cup {rid}]

\* a mutant of RelationTimestamp: the snapshot is not consulted
RelationTimestampMinted(g, key, nowv) == nowv

\* the timestamp add_relation gives to a relation when now() would return nowv
RelationTimestamp(g, key, nowv) ==
  LET timestamp == DictGet(g.previous_relations_to_timestamps, key)
  IN  IF ~valid_string(timestamp) THEN nowv ELSE timestamp

\* add_relation reads the clock only when it does not inherit a timestamp
add_relation_calls_now(g, source, target, kind) ==
  ~valid_string(DictGet(g.previous_relations_to_timestamps,
                        <<source, target, kind>>))

\* add_relation raises AttributeError when metadata is given: the copy module
\* has no deep_copy (context.py:163)
add_relation_raises(metadata) == metadata # NoneStr

\* the annotations of a stored relation
RelationAnnotations(g, kind, label) ==
  IF g.version # NoneStr
    THEN [label |-> IF label # NoneStr THEN label ELSE kind,
          createdBy |-> g.version]
    ELSE [label |-> IF label # NoneStr THEN label ELSE kind]

\* a mutant of add_relation: the timestamp is always minted, never inherited
add_relation_always_now(g, source, target, kind, label, metadata, nowv) ==
  LET key == <<source, target, kind>>
      recorded == [g EXCEPT !.current_relations_to_timestamps =
                              DictPut(@, key, nowv)]
  IN  IF add_relation_raises(metadata)
        THEN recorded
        ELSE [recorded EXCEPT
                !.context_relations = Append(@,
                   [ source |-> source, target |-> target, type |-> kind,
                     timestamp |-> nowv,
                     annotations |-> RelationAnnotations(g, kind, label) ])]

\* ContextGraph.add_relation (the whole body runs under self._lock); the
\* current map is written before the annotations are built, so a call that
\* raises there has recorded the triple and appended nothing
add_relation(g, source, target, kind, label, metadata, nowv) ==
  LET key == <<source, target, kind>>
      timestamp == RelationTimestamp(g, key, nowv)
      recorded == [g EXCEPT !.current_relations_to_timestamps =
                              DictPut(@, key, timestamp)]
  IN  IF add_relation_raises(metadata)
        THEN recorded
        ELSE [recorded EXCEPT
                !.context_relations = Append(@,
                   [ source |-> source, target |-> target, type |-> kind,
                     timestamp |-> timestamp,
                     annotations |-> RelationAnnotations(g, kind, label) ])]

----------------------------------------------------------------------------
(* SpecGraph: one ContextGraph driven by arbitrary callers.  Each method   *)
(* body runs under the instance lock, so an interleaving of calls is the   *)
(* order in which they take the lock: one action per call.                 *)

\* the add_resource calls explored: two ids, and for each id two calls that
\* differ in every other argument
GraphResourceCalls ==
  { [rid |-> rid, label |-> v.label, rtype |-> v.rtype,
     timestamp |-> v.timestamp, obj |-> v.obj] :
      rid \in { <<"Node", "n1">>, <<"Pod", "p1">> },
      v \in { [label |-> "a", rtype |-> "Node", timestamp |-> 1, obj |-> "props1"],
              [label |-> "b", rtype |-> "Pod", timestamp |-> 2, obj |-> "props2"] } }
GraphVersions == {"v1"}
\* the add_relation calls explored: two triples, with and without a label,
\* with and without metadata
GraphTriples == { << <<"Node", "n1">>, <<"Pod", "p1">>, k >> : k \in {"contains", "runs"} }
GraphRelationOptions ==
  { [label |-> NoneStr, metadata |-> NoneStr],
    [label |-> "a", metadata |-> NoneStr],
    [label |-> NoneStr, metadata |-> "md"] }
\* the dictionaries handed to set_relations_to_timestamps: any dictionary
\* passes its assertion, also one holding '' for a triple
GraphDicts ==
  UNION { [D -> {EmptyString, 1}] :
            D \in SUBSET { << <<"Node", "n1">>, <<"Pod", "p1">>, "contains" >> } }

TheGraph == 1

InitGraph ==
  /\ clock = 2
  /\ graph = [b \in {TheGraph} |-> NewContextGraph]
  /\ callLog = <<>>
  /\ lastCall = [op |-> "none"]
  /\ world = [nodes |-> <<>>]
  /\ gs = [testing |-> FALSE]
  /\ build = <<>>
  /\ buildLog = <<>>

GraphAddResource ==
  /\ Len(callLog) < MaxCalls
  /\ \E c \in GraphResourceCalls :
       /\ graph' = [graph EXCEPT ![TheGraph] =
            add_resource(@, c.rid, [label |-> c.label], c.rtype, c.timestamp,
                         c.obj)]
       /\ callLog' = Append(callLog,
            [ op |-> "add_resource", rid |-> c.rid, label |-> c.label,
              rtype |-> c.rtype, timestamp |-> c.timestamp, obj |-> c.obj,
              version |-> graph[TheGraph].version ])
       /\ lastCall' = [op |-> "add_resource"]
  /\ UNCHANGED clock

GraphAddRelation ==
  /\ Len(callLog) < MaxCalls
  /\ \E key \in GraphTriples, o \in GraphRelationOptions :
       /\ graph' = [graph EXCEPT ![TheGraph] =
            add_relation(@, key[1], key[2], key[3], o.label, o.metadata, clock)]
       /\ clock' = IF add_relation_calls_now(graph[TheGraph], key[1], key[2], key[3])
                     THEN clock + 1 ELSE clock
       /\ callLog' = Append(callLog, [op |-> "add_relation", key |-> key])
       /\ lastCall' = [ op |-> "add_relation", key |-> key, label |-> o.label,
                        metadata |-> o.metadata, now |-> clock ]

GraphSetVersion ==
  /\ Len(callLog) < MaxCalls
  /\ \E version \in GraphVersions :
       graph' = [graph EXCEPT ![TheGraph] = set_version(@, version)]
  /\ callLog' = Append(callLog, [op |-> "set_version"])
  /\ lastCall' = [op |-> "set_version"]
  /\ UNCHANGED clock

GraphSetRelationsToTimestamps ==
  /\ Len(callLog) < MaxCalls
  /\ \E d \in GraphDicts :
       graph' = [graph EXCEPT ![TheGraph] = set_relations_to_timestamps(@, d)]
  /\ callLog' = Append(callLog, [op |-> "set_relations_to_timestamps"])
  /\ lastCall' = [op |-> "set_relations_to_timestamps"]
  /\ UNCHANGED clock

NextGraph ==
  \/ GraphAddResource /\ UNCHANGED <<world, gs, build, buildLog>>
  \/ GraphAddRelation /\ UNCHANGED <<world, gs, build, buildLog>>
  \/ GraphSetVersion /\ UNCHANGED <<world, gs, build, buildLog>>
  \/ GraphSetRelationsToTimestamps /\ UNCHANGED <<world, gs, build, buildLog>>

SpecGraph == InitGraph /\ [][NextGraph]_vars

----------------------------------------------------------------------------
(* The backend data one build reads through kubernetes.py and docker.py.   *)
(* A world lists the wrapped objects the fetch routines return and the     *)
(* fetches that fail.  Ids are unique within a type.                       *)

\* the timestamp of backend data that has not changed since the start
InitialTimestamp == 1

PodP1 == [id |-> "p1", nodeName |-> "n1", label |-> "app", timestamp |-> InitialTimestamp]
ContainerC1 ==
  [id |-> "c1", docker_host |-> "n1", parent_pod_id |-> "p1", image |-> "i1",
   timestamp |-> InitialTimestamp]
ServiceS1 == [id |-> "s1", selector |-> "app", timestamp |-> InitialTimestamp]

\* one node running one pod with one container, whose image is not found
WorldFull ==
  [ nodes |-> <<"n1">>, node_timestamp |-> InitialTimestamp, pods |-> <<PodP1>>,
    containers |-> <<[ContainerC1 EXCEPT !.image = NoneStr]>>,
    processes |-> <<>>, services |-> <<>>, rcontrollers |-> <<>>,
    fail |-> {} ]
\* the node alone
WorldBare == [WorldFull EXCEPT !.pods = <<>>, !.containers = <<>>]
\* no node at all
WorldEmpty == [WorldBare EXCEPT !.nodes = <<>>]
\* fetching the pods fails
WorldPodsDown == [WorldFull EXCEPT !.fail = {"pods"}]
\* fetching the nodes fails
WorldNodesDown == [WorldBare EXCEPT !.fail = {"nodes"}]
\* with a service selecting the pod, and an image for the container
WorldService ==
  [WorldFull EXCEPT !.containers = <<ContainerC1>>, !.services = <<ServiceS1>>]
\* fetching the pods and fetching the services fail
WorldMasterDown == [WorldService EXCEPT !.fail = {"pods", "services"}]
\* fetching the pods fails and the selector of the service is not a dictionary
WorldBroken ==
  [WorldService EXCEPT !.services = <<[ServiceS1 EXCEPT !.selector = "invalid"]>>,
                       !.fail = {"pods"}]
\* the container has no valid image id: docker.get_image raises ValueError
WorldBadImage == [WorldService EXCEPT !.fail = {"image"}]

\* three nodes, each running two pods, each pod with one container (whose
\* image is not found); no services and no replication controllers
WorldCluster ==
  LET PodOn(id, node) == [PodP1 EXCEPT !.id = id, !.nodeName = node]
      ContainerOf(id, node, pod) ==
        [ContainerC1 EXCEPT !.id = id, !.docker_host = node,
                            !.parent_pod_id = pod, !.image = NoneStr]
  IN
  [ nodes |-> <<"n1", "n2", "n3">>, node_timestamp |-> InitialTimestamp,
    pods |-> << PodOn("p1", "n1"), PodOn("p2", "n1"), PodOn("p3", "n2"),
                PodOn("p4", "n2"), PodOn("p5", "n3"), PodOn("p6", "n3") >>,
    containers |-> << ContainerOf("c1", "n1", "p1"), ContainerOf("c2", "n1", "p2"),
                      ContainerOf("c3", "n2", "p3"), ContainerOf("c4", "n2", "p4"),
                      ContainerOf("c5", "n3", "p5"), ContainerOf("c6", "n3", "p6") >>,
    processes |-> <<>>, services |-> <<>>, rcontrollers |-> <<>>,
    fail |-> {} ]

\* two of these nodes, each running one pod with its container
WorldPair ==
  [WorldCluster EXCEPT
     !.nodes = <<"n1", "n2">>,
     !.pods = SelectSeq(@, LAMBDA p : p.id \in {"p1", "p3"}),
     !.containers = SelectSeq(@, LAMBDA c : c.id \in {"c1", "c3"})]

\* the worlds of Spec, SpecPool and SpecGate
BuildWorlds == {WorldFull, WorldBare, WorldEmpty, WorldPodsDown}
\* (the last world of SpecPool: only fetching the services fails, so the
\* builder thread raises while the node task is queued or running)
PoolWorlds ==
  { WorldService, WorldMasterDown, WorldBroken, WorldBadImage,
    [WorldService EXCEPT !.fail = {"services"}] }
GateWorlds == {WorldBare, WorldNodesDown, WorldPodsDown}

\* utilities.node_id_to_cluster_name: the node ids of the worlds all match
\* HOST_NAME_PATTERN with the cluster name 'c'
node_id_to_cluster_name(node_id) ==
  IF node_id \in {"n1", "n2"} THEN "c" ELSE "_unknown_"

\* valid_string applied to an optional name
valid_name(x) == x # NoneStr /\ x # ""

----------------------------------------------------------------------------
(* The task functions.  A task is the sequence of its calls on shared      *)
(* state, in program order:                                                *)
(*   res   g.add_resource          rel   g.add_relation                    *)
(*   put   input_queue.put         raise the exception that ends the task  *)
(* Every g call takes and releases g's lock, so tasks interleave between   *)
(* calls.                                                                  *)

Res(rid, label, rtype, timestamp) ==
  [op |-> "res", rid |-> rid, label |-> label, rtype |-> rtype,
   timestamp |-> timestamp]
Rel(source, target, kind) ==
  [op |-> "rel", source |-> source, target |-> target, kind |-> kind]
Put(func, id, parent) ==
  [op |-> "put", func |-> func, id |-> id, parent |-> parent]
Raise(exc, msg) == [op |-> "raise", exc |-> exc, msg |-> msg]

RECURSIVE Flatten(_)
Flatten(ss) == IF ss = <<>> THEN <<>> ELSE Head(ss) \o Flatten(Tail(ss))

\* a function body stops at the first exception it raises
RECURSIVE UntilRaise(_)
UntilRaise(ops) ==
  IF ops = <<>> THEN <<>>
  ELSE IF Head(ops).op = "raise" THEN <<Head(ops)>>
  ELSE <<Head(ops)>> \o UntilRaise(Tail(ops))

\* kubernetes.get_pods(gs, node_id): the pods whose nodeName is node_id
PodsOfNode(w, node_id) == SelectSeq(w.pods, LAMBDA p : p.nodeName = node_id)

\* a fetch that fails raises CollectorError with a message naming what was fetched
FetchFails(w, what) == what \in w.fail
FetchError(what, where) == Raise("CollectorError", <<"fetch failed", what, where>>)

\* a mutant of do_compute_pod: every pod is taken as not running
do_compute_pod_not_running(cluster_guid, node_guid, pod) ==
  << Res(<<"Pod", pod.id>>, pod.id, "Pod", pod.timestamp),
     Rel(cluster_guid, <<"Pod", pod.id>>, "contains") >>

\* _do_compute_pod
do_compute_pod(cluster_guid, node_guid, pod) ==
  LET pod_guid == <<"Pod", pod.id>>
  IN  <<Res(pod_guid, pod.id, "Pod", pod.timestamp)>> \o
      ( IF valid_name(pod.nodeName)
          THEN IF node_guid = <<"Node", pod.nodeName>>
                 THEN <<Rel(node_guid, pod_guid, "runs")>>
                 ELSE <<Raise("CollectorError",
                              <<"host mismatch", pod.nodeName, node_guid[2]>>)>>
          ELSE <<Rel(cluster_guid, pod_guid, "contains")>> )

\* a mutant of do_compute_container: the parent relation is not added
do_compute_container_no_parent(w, docker_host, parent_guid, container) ==
  << Res(<<"Container", container.id>>, container.id, "Container",
         container.timestamp) >>

\* _do_compute_container
do_compute_container(w, docker_host, parent_guid, container) ==
  LET container_guid == <<"Container", container.id>>
      image_guid == <<"Image", container.image>>
      procs == SelectSeq(w.processes, LAMBDA x : x.container = container.id)
  IN  UntilRaise(
        << Res(container_guid, container.id, "Container", container.timestamp),
           Rel(parent_guid, container_guid, "contains") >> \o
        ( IF FetchFails(w, "processes")
            THEN <<FetchError("processes", container.id)>>
            ELSE Flatten([i \in 1..Len(procs) |->
                   << Res(<<"Process", procs[i].id>>, procs[i].id, "Process",
                          procs[i].timestamp),
                      Rel(container_guid, <<"Process", procs[i].id>>,
                          "contains") >>]) ) \o
        ( IF FetchFails(w, "image")
            THEN <<Raise("ValueError", <<"call failed", "_do_compute_container",
                                         container.id>>)>>
            ELSE IF ~valid_name(container.image)
              THEN <<>>
              ELSE << Res(image_guid, container.image, "Image",
                          container.timestamp),
                      Rel(container_guid, image_guid, "createdFrom") >> ) )

\* _do_compute_node: the containers are computed inline in test mode and
\* enqueued as tasks otherwise
do_compute_node(w, testing, cluster_guid, node_id) ==
  LET node_guid == <<"Node", node_id>>
      pods == PodsOfNode(w, node_id)
      pod_ids == { pods[i].id : i \in 1..Len(pods) }
      docker_hosts == IF pods = <<>> THEN <<>> ELSE <<node_id>>
      containers_of(host) ==
        SelectSeq(w.containers, LAMBDA c : c.docker_host = host)
      parent_guid(c) ==
        IF valid_name(c.parent_pod_id) /\ c.parent_pod_id \in pod_ids
          THEN <<"Pod", c.parent_pod_id>> ELSE node_guid
      host_ops(host) ==
        IF FetchFails(w, "containers")
          THEN <<FetchError("containers", host)>>
          ELSE Flatten([i \in 1..Len(containers_of(host)) |->
                 LET c == containers_of(host)[i]
                 IN  IF testing
                       THEN do_compute_container(w, host, parent_guid(c), c)
                       ELSE <<Put("_do_compute_container", c.id,
                                  parent_guid(c))>>])
  IN  UntilRaise(
        << Res(node_guid, node_id, "Node", w.node_timestamp),
           Rel(cluster_guid, node_guid, "contains") >> \o
        ( IF FetchFails(w, "pods")
            THEN <<FetchError("pods", "")>>
            ELSE Flatten([i \in 1..Len(pods) |->
                          do_compute_pod(cluster_guid, node_guid, pods[i])]) \o
                 Flatten([i \in 1..Len(docker_hosts) |->
                          host_ops(docker_hosts[i])]) ) )

\* the pods a selector matches (kubernetes.get_selected_pods)
SelectedPods(w, selector) == SelectSeq(w.pods, LAMBDA p : p.label = selector)

\* _do_compute_service and _do_compute_rcontroller: the same body, with
\* 'loadBalances' and 'monitors'
do_compute_selector(w, cluster_guid, rtype, kind, obj) ==
  LET guid == <<rtype, obj.id>>
      pods == SelectedPods(w, obj.selector)
  IN  UntilRaise(
        << Res(guid, obj.id, rtype, obj.timestamp),
           Rel(cluster_guid, guid, "contains") >> \o
        ( IF obj.selector = "missing" THEN <<>>
          ELSE IF obj.selector = "invalid"
            THEN <<Raise("CollectorError", <<"invalid selector", obj.id, "">>)>>
          ELSE IF FetchFails(w, "pods") THEN <<FetchError("pods", "")>>
          ELSE [i \in 1..Len(pods) |->
                  Rel(guid, <<"Pod", pods[i].id>>, kind)] ) )

\* _do_compute_master_pods: a placeholder Node for every nodeName that is not
\* in the node list, and the pods of that node
do_compute_master_pods(w, cluster_guid, oldest_timestamp) ==
  LET known == { w.nodes[i] : i \in 1..Len(w.nodes) }
      missing == SelectSeq(w.pods,
                   LAMBDA p : valid_name(p.nodeName) /\ p.nodeName \notin known)
      first(i) == \A j \in 1..(i - 1) : missing[j].nodeName # missing[i].nodeName
      node_ops(node_id) ==
        << Res(<<"Node", node_id>>, node_id, "Node", oldest_timestamp),
           Rel(cluster_guid, <<"Node", node_id>>, "contains") >> \o
        Flatten([i \in 1..Len(PodsOfNode(w, node_id)) |->
                 do_compute_pod(cluster_guid, <<"Node", node_id>>,
                                PodsOfNode(w, node_id)[i])])
  IN  IF FetchFails(w, "pods")
        THEN <<FetchError("pods", "")>>
        ELSE UntilRaise(Flatten([i \in 1..Len(missing) |->
               IF first(i) THEN node_ops(missing[i].nodeName) ELSE <<>>]))

\* the body of a queued task: func(**kwargs)
TaskOps(w, testing, cluster_guid, oldest_timestamp, task) ==
  LET named(seq) == CHOOSE x \in { seq[i] : i \in 1..Len(seq) } : x.id = task.id
  IN  CASE task.func = "_do_compute_node" ->
             do_compute_node(w, testing, cluster_guid, task.id)
        [] task.func = "_do_compute_container" ->
             do_compute_container(w, named(w.containers).docker_host,
                                  task.parent, named(w.containers))
        [] task.func = "_do_compute_service" ->
             do_compute_selector(w, cluster_guid, "Service", "loadBalances",
                                 named(w.services))
        [] task.func = "_do_compute_rcontroller" ->
             do_compute_selector(w, cluster_guid, "ReplicationController",
                                 "monitors", named(w.rcontrollers))
        [] task.func = "_do_compute_master_pods" ->
             do_compute_master_pods(w, cluster_guid, oldest_timestamp)

----------------------------------------------------------------------------
(* Queue.PriorityQueue: the items, and the count of unfinished tasks that  *)
(* join() waits for.  A sentinel is the item (0, None, None).              *)

NewQueue == [tasks |-> {}, sentinels |-> 0, unfinished_tasks |-> 0]

Sentinel == [priority |-> SentinelPriority, func |-> NoneStr]
Task(priority, func, id, parent) ==
  [priority |-> priority, func |-> func, id |-> id, parent |-> parent]

\* Queue.put: every put counts as an unfinished task
queue_put(q, item) ==
  IF item.func = NoneStr
    THEN [q EXCEPT !.sentinels = @ + 1, !.unfinished_tasks = @ + 1]
    ELSE [q EXCEPT !.tasks = @ \cup {item}, !.unfinished_tasks = @ + 1]

\* a mutant of queue_front: the sentinel sorts behind the tasks
queue_front_sentinel_last(q) ==
  IF q.tasks # {}
    THEN { t \in q.tasks : \A u \in q.tasks : t.priority <= u.priority }
    ELSE IF q.sentinels > 0 THEN {Sentinel} ELSE {}

\* the items Queue.get may return: a smallest tuple.  Tuples of equal
\* priority are ordered by their second element: None, the sentinel's, is
\* smaller than any function, and the order of two functions is arbitrary
queue_front(q) ==
  LET least(t) == \A u \in q.tasks : t.priority <= u.priority
  IN  IF q.sentinels > 0 /\ \A u \in q.tasks : SentinelPriority <= u.priority
        THEN {Sentinel}
        ELSE { t \in q.tasks : least(t) }

\* a mutant of queue_get: taking an item already counts it as done
queue_get_counts_done(q, item) ==
  IF item.func = NoneStr
    THEN [q EXCEPT !.sentinels = @ - 1]
    ELSE [q EXCEPT !.tasks = @ \ {item}, !.unfinished_tasks = @ - 1]

\* Queue.get: removes the item, the count of unfinished tasks stays
queue_get(q, item) ==
  IF item.func = NoneStr
    THEN [q EXCEPT !.sentinels = @ - 1]
    ELSE [q EXCEPT !.tasks = @ \ {item}]

\* Queue.task_done
queue_task_done(q) == [q EXCEPT !.unfinished_tasks = @ - 1]

\* Queue.join returns when no task is unfinished
queue_join_returns(q) == q.unfinished_tasks = 0

----------------------------------------------------------------------------
(* class GlobalState *)

NewGlobalState(testing, num_workers) ==
  [ testing |-> testing, num_workers |-> num_workers, sequence_number |-> 0,
    relations_to_timestamps |-> EmptyDict,
    bounded_semaphore |-> MAX_CONCURRENT_COMPUTE_GRAPH ]

\* a mutant of RandomPriorities: test mode draws its priorities as well
RandomPrioritiesDrawn(g) == {0, MAX_PRIORITY}

\* GlobalState.get_random_priority: the values it may return, and the state after
\* (of the production range the two ends are explored: a priority that ties
\* with the sentinel's and one above it)
RandomPriorities(g) ==
  IF g.testing THEN {g.sequence_number + 1} ELSE {0, MAX_PRIORITY}
AfterRandomPriority(g) ==
  IF g.testing THEN [g EXCEPT !.sequence_number = @ + 1] ELSE g

\* GlobalState.get_relations_to_timestamps and set_relations_to_timestamps:
\* the map the state keeps between builds
gs_get_relations_to_timestamps(g) == g.relations_to_timestamps
gs_set_relations_to_timestamps(g, d) == [g EXCEPT !.relations_to_timestamps = d]

\* a mutant of range_limit: the value is not limited
range_limit_unlimited(x, low, high) == x

\* utilities.range_limit
range_limit(x, low, high) == IF x < low THEN low ELSE IF x > high THEN high ELSE x

----------------------------------------------------------------------------
(* compute_graph, _do_compute_graph and worker *)

Callers == {"A", "B", "C"}

\* a worker thread; sentinels and caught count the sentinels it has taken and
\* the exceptions it has caught
IdleWorker ==
  [state |-> "idle", task |-> Sentinel, ops |-> <<>>, sentinels |-> 0,
   caught |-> 0]

IdleBuild ==
  [ pc |-> "idle", output_format |-> "", nworkers |-> 0, workers |-> <<>>,
    input_queue |-> NewQueue, output_queue |-> <<>>,
    cluster_guid |-> <<>>, oldest_timestamp |-> None, script |-> <<>>,
    sentinels_put |-> 0, outcome |-> [kind |-> "none"],
    \* history of this call
    world |-> WorldEmpty, previous |-> EmptyDict, errors |-> <<>>,
    puts |-> {}, done |-> {}, joined |-> FALSE, stored |-> FALSE,
    \* the number of calls that had ended when this call entered
    entered |-> 0 ]

\* the number of worker threads compute_graph creates
NumberOfWorkers(g, w) ==
  IF g.testing THEN 1
  ELSE IF g.num_workers > 0 THEN g.num_workers
  ELSE range_limit(Len(w.nodes), MIN_CONCURRENT_WORKERS, MAX_CONCURRENT_WORKERS)

\* ContextGraph.max_resources_and_relations_timestamp
max_resources_and_relations_timestamp(g, nowv) ==
  LET stamps == { g.context_resources[i].timestamp :
                    i \in 1..Len(g.context_resources) }
                \cup { g.context_relations[i].timestamp :
                    i \in 1..Len(g.context_relations) }
  IN  IF stamps = {} THEN nowv
      ELSE CHOOSE t \in stamps : \A u \in stamps : u <= t

\* a mutant of dump: every format is refused
dump_refuses(g, output_format, nowv) ==
  [ kind |-> "raised", exc |-> "CollectorError",
    msg |-> <<"invalid dump() output_format", output_format, "">> ]

\* ContextGraph.dump.  The DOT text of to_dot_graph is the list of its items
\* in the order in which they are joined: one per resource (id, type and
\* label; the colour is a function of the type), then one per relation.
dump(g, output_format, nowv) ==
  IF output_format = "dot"
    THEN [ kind |-> "returned",
           dot |-> [i \in 1..Len(g.context_resources) |->
                      << g.context_resources[i].id,
                         g.context_resources[i].type,
                         g.context_resources[i].annotations.label >>]
                   \o [i \in 1..Len(g.context_relations) |->
                      << g.context_relations[i].source,
                         g.context_relations[i].target,
                         g.context_relations[i].annotations.label >>] ]
  ELSE IF output_format = "context_graph"
    THEN [ kind |-> "returned", success |-> TRUE,
           timestamp |-> max_resources_and_relations_timestamp(g, nowv),
           resources |-> g.context_resources,
           relations |-> g.context_relations ]
  ELSE IF output_format = "resources"
    THEN [ kind |-> "returned", success |-> TRUE,
           timestamp |-> max_resources_and_relations_timestamp(g, nowv),
           resources |-> g.context_resources ]
  ELSE [ kind |-> "raised", exc |-> "CollectorError",
         msg |-> <<"invalid dump() output_format", output_format, "">> ]

\* the builder's puts after the Cluster resource, in program order: the nodes,
\* the services, the replication controllers, the master pods
BuilderScript(w) ==
  UntilRaise(
    [i \in 1..Len(w.nodes) |-> Put("_do_compute_node", w.nodes[i], <<>>)] \o
    ( IF FetchFails(w, "services") THEN <<FetchError("services", "")>>
      ELSE [i \in 1..Len(w.services) |->
              Put("_do_compute_service", w.services[i].id, <<>>)] ) \o
    ( IF FetchFails(w, "rcontrollers") THEN <<FetchError("rcontrollers", "")>>
      ELSE [i \in 1..Len(w.rcontrollers) |->
              Put("_do_compute_rcontroller", w.rcontrollers[i].id, <<>>)] ) \o
    << Put("_do_compute_master_pods", "", <<>>) >> )

\* the callers blocked in the acquire of the bounded semaphore
Waiting == { b \in Callers : build[b].pc = "waiting" }

\* the builds in progress: the callers inside the with block
Running == { b \in Callers : build[b].pc \notin {"idle", "waiting"} }

\* a mutant of SlotIsFree: the acquire never blocks
SlotIsFreeAlways(g) == TRUE

\* BoundedSemaphore.acquire returns only when the counter is positive
SlotIsFree(g) == g.bounded_semaphore > 0

\* the locals of a call that has just acquired its slot
EnteredBuild ==
  [IdleBuild EXCEPT !.pc = "start_workers",
                    !.output_format = "context_graph",
                    !.world = world,
                    !.previous = gs.relations_to_timestamps,
                    !.entered = Len(buildLog)]

\* compute_graph is called: the caller takes a slot of the bounded semaphore
\* (it blocks while none is free) and creates the two queues
Enter(b, maxBuilds) ==
  /\ build[b].pc = "idle"
  /\ Len(buildLog) + Cardinality(Running) < maxBuilds
  /\ SlotIsFree(gs)
  /\ gs' = [gs EXCEPT !.bounded_semaphore = @ - 1]
  /\ build' = [build EXCEPT ![b] = EnteredBuild]
  /\ UNCHANGED <<clock, graph, callLog, lastCall, world, buildLog>>

\* compute_graph is called and finds no free slot, or has not yet been
\* scheduled to take one: the caller blocks in the acquire
Arrive(b, maxBuilds) ==
  /\ build[b].pc = "idle"
  /\ Len(buildLog) + Cardinality(Running) + Cardinality(Waiting) < maxBuilds
  /\ build' = [build EXCEPT ![b].pc = "waiting"]
  /\ UNCHANGED <<clock, graph, callLog, lastCall, world, gs, buildLog>>

\* the blocked caller takes a slot that is free
Acquire(b) ==
  /\ build[b].pc = "waiting"
  /\ SlotIsFree(gs)
  /\ gs' = [gs EXCEPT !.bounded_semaphore = @ - 1]
  /\ build' = [build EXCEPT ![b] = EnteredBuild]
  /\ UNCHANGED <<clock, graph, callLog, lastCall, world, buildLog>>

\* the worker threads are created and started; kubernetes.get_nodes, called
\* for their number, may raise before any thread exists
StartWorkers(b) ==
  /\ build[b].pc = "start_workers"
  /\ IF ~gs.testing /\ gs.num_workers <= 0
        /\ FetchFails(build[b].world, "nodes")
       THEN build' = [build EXCEPT
              ![b].pc = "exit",
              ![b].outcome = [kind |-> "raised", exc |-> "CollectorError",
                              msg |-> <<"fetch failed", "nodes", "">>]]
       ELSE build' = [build EXCEPT
              ![b].pc = "compute",
              ![b].nworkers = NumberOfWorkers(gs, build[b].world),
              ![b].workers = [w \in 1..NumberOfWorkers(gs, build[b].world)
                                |-> IdleWorker]]
  /\ UNCHANGED <<clock, graph, callLog, lastCall, world, gs, buildLog>>

\* the timestamp of the cluster: now(), or the smallest node timestamp below it
OldestTimestamp(w, nowv) ==
  IF w.node_timestamp < nowv THEN w.node_timestamp ELSE nowv

\* _do_compute_graph up to the Cluster resource: a new ContextGraph with the
\* version and the snapshot of the previous build's timestamps; the node list
BeginGraph(b) ==
  LET world_b == build[b].world
      g == set_relations_to_timestamps(
             set_version(NewContextGraph,
                         IF FetchFails(world_b, "version") THEN "_unknown_"
                                                           ELSE "v1"),
             gs_get_relations_to_timestamps(gs))
      cluster_name == node_id_to_cluster_name(world_b.nodes[1])
      cluster_guid == <<"Cluster", cluster_name>>
      oldest == OldestTimestamp(world_b, clock)
  IN  /\ build[b].pc = "compute"
      /\ IF FetchFails(world_b, "nodes")
           THEN /\ graph' = [graph EXCEPT ![b] = g]
                /\ build' = [build EXCEPT
                     ![b].pc = "cleanup",
                     ![b].outcome = [kind |-> "raised", exc |-> "CollectorError",
                                     msg |-> <<"fetch failed", "nodes", "">>]]
                /\ UNCHANGED clock
           ELSE IF FetchFails(world_b, "metrics")
             THEN /\ graph' = [graph EXCEPT ![b] = g]
                  /\ build' = [build EXCEPT
                       ![b].pc = "cleanup",
                       ![b].outcome = [kind |-> "raised", exc |-> "TypeError",
                                       msg |-> <<"annotate_node", "metrics", "">>]]
                  /\ UNCHANGED clock
           ELSE IF world_b.nodes = <<>>
             THEN /\ graph' = [graph EXCEPT ![b] = g]
                  /\ build' = [build EXCEPT
                       ![b].pc = "cleanup",
                       ![b].outcome = dump(g, build[b].output_format, clock)]
                  /\ clock' = clock + 1
             ELSE /\ graph' = [graph EXCEPT ![b] =
                       add_resource(g, cluster_guid, [label |-> cluster_name],
                                    "Cluster", oldest, "{}")]
                  /\ build' = [build EXCEPT
                       ![b].pc = "enqueue",
                       ![b].cluster_guid = cluster_guid,
                       ![b].oldest_timestamp = oldest,
                       ![b].script = BuilderScript(world_b)]
                  /\ clock' = clock + 1
      /\ UNCHANGED <<callLog, lastCall, world, gs, buildLog>>

\* the next put of the builder, or the exception of a fetch between two puts
Enqueue(b) ==
  /\ build[b].pc = "enqueue"
  /\ LET o == Head(build[b].script)
         rest == Tail(build[b].script)
     IN  IF o.op = "raise"
           THEN /\ build' = [build EXCEPT
                     ![b].pc = "cleanup", ![b].script = <<>>,
                     ![b].outcome = [kind |-> "raised", exc |-> o.exc,
                                     msg |-> o.msg]]
                /\ UNCHANGED gs
           ELSE \E p \in RandomPriorities(gs) :
                  /\ build' = [build EXCEPT
                       ![b].pc = IF rest = <<>> THEN "join" ELSE "enqueue",
                       ![b].script = rest,
                       ![b].input_queue =
                          queue_put(@, Task(p, o.func, o.id, o.parent)),
                       ![b].puts = @ \cup {<<o.func, o.id>>}]
                  /\ gs' = AfterRandomPriority(gs)
  /\ UNCHANGED <<clock, graph, callLog, lastCall, world, buildLog>>

\* input_queue.join() returns
Join(b) ==
  /\ build[b].pc = "join"
  /\ queue_join_returns(build[b].input_queue)
  /\ build' = [build EXCEPT ![b].pc = "collect", ![b].joined = TRUE]
  /\ UNCHANGED <<clock, graph, callLog, lastCall, world, gs, buildLog>>

\* a mutant of KeepRelations: the map of the build is not kept
KeepRelationsNot(g_s, g) == g_s

\* gs.set_relations_to_timestamps(g.get_relations_to_timestamps())
KeepRelations(g_s, g) ==
  gs_set_relations_to_timestamps(g_s, get_relations_to_timestamps(g))

\* a mutant of output_queue_empty: the queue always looks empty
output_queue_empty_always(q) == TRUE

\* output_queue.empty()
output_queue_empty(q) == q = <<>>

\* after the join: the first message of the output queue is raised as a
\* CollectorError; without one the map is kept and the graph is dumped
Collect(b) ==
  /\ build[b].pc = "collect"
  /\ IF ~output_queue_empty(build[b].output_queue)
       THEN /\ build' = [build EXCEPT
                 ![b].pc = "cleanup",
                 ![b].output_queue = Tail(@),
                 ![b].outcome = [kind |-> "raised", exc |-> "CollectorError",
                                 msg |-> Head(build[b].output_queue)]]
            /\ UNCHANGED gs
       ELSE /\ gs' = KeepRelations(gs, graph[b])
            /\ build' = [build EXCEPT
                 ![b].pc = "cleanup",
                 ![b].stored = TRUE,
                 ![b].outcome = dump(graph[b], build[b].output_format, clock)]
  /\ UNCHANGED <<clock, graph, callLog, lastCall, world, buildLog>>

\* a mutant of SentinelsToPut: one sentinel too few
SentinelsToPutOneLess(nworkers) == nworkers - 1

\* the cleanup block puts one sentinel per worker thread
SentinelsToPut(nworkers) == nworkers

PutSentinel(b) ==
  /\ build[b].pc = "cleanup"
  /\ build[b].sentinels_put < SentinelsToPut(build[b].nworkers)
  /\ build' = [build EXCEPT
       ![b].input_queue = queue_put(@, Sentinel),
       ![b].sentinels_put = @ + 1]
  /\ UNCHANGED <<clock, graph, callLog, lastCall, world, gs, buildLog>>

\* t.join() for every worker thread
JoinThreads(b) ==
  /\ build[b].pc = "cleanup"
  /\ build[b].sentinels_put >= SentinelsToPut(build[b].nworkers)
  /\ \A w \in 1..build[b].nworkers : build[b].workers[w].state = "exited"
  /\ build' = [build EXCEPT ![b].pc = "exit"]
  /\ UNCHANGED <<clock, graph, callLog, lastCall, world, gs, buildLog>>

\* a mutant of SemaphoreAfterExit: the slot is kept when the call raises
SemaphoreAfterExitLeak(n, kind) == IF kind = "raised" THEN n ELSE n + 1

\* leaving the with block releases the semaphore, by return or by exception
SemaphoreAfterExit(n, kind) == n + 1

\* compute_graph returns its result or raises
Exit(b) ==
  /\ build[b].pc = "exit"
  /\ gs' = [gs EXCEPT !.bounded_semaphore =
              SemaphoreAfterExit(@, build[b].outcome.kind)]
  /\ build' = [build EXCEPT ![b] = IdleBuild]
  /\ graph' = [graph EXCEPT ![b] = NewContextGraph]
  /\ buildLog' = Append(buildLog,
       [ caller |-> b, world |-> build[b].world, outcome |-> build[b].outcome,
         output_format |-> build[b].output_format,
         previous |-> build[b].previous, errors |-> build[b].errors,
         joined |-> build[b].joined, stored |-> build[b].stored,
         entered |-> build[b].entered,
         kept |-> gs.relations_to_timestamps,
         alive |-> Cardinality({ w \in 1..build[b].nworkers :
                                  build[b].workers[w].state # "exited" }) ])
  /\ UNCHANGED <<clock, callLog, lastCall, world>>

\* worker: input_queue.get()
WorkerGet(b, w) ==
  /\ build[b].pc # "idle"
  /\ w \in 1..build[b].nworkers
  /\ build[b].workers[w].state = "idle"
  /\ \E item \in queue_front(build[b].input_queue) :
       LET ops == TaskOps(build[b].world, gs.testing, build[b].cluster_guid,
                          build[b].oldest_timestamp, item)
       IN  build' = [build EXCEPT
             ![b].input_queue = queue_get(@, item),
             ![b].workers[w] =
                IF item.func = NoneStr
                  THEN [@ EXCEPT !.state = "exited", !.sentinels = @ + 1]
                  ELSE [@ EXCEPT
                          !.state = IF ops = <<>> THEN "finishing" ELSE "running",
                          !.task = item, !.ops = ops]]
  /\ UNCHANGED <<clock, graph, callLog, lastCall, world, gs, buildLog>>

\* a mutant of WorkerAfterRaise: the exception ends the thread
WorkerAfterRaiseDies(wk) ==
  [wk EXCEPT !.state = "exited", !.ops = <<>>, !.caught = @ + 1]

\* the worker catches what the task raises and goes on to task_done
WorkerAfterRaise(wk) ==
  [wk EXCEPT !.state = "finishing", !.ops = <<>>, !.caught = @ + 1]

\* the message the worker puts on the output queue: str(e) for a
\* CollectorError, and a description of the call for any other exception
WorkerMessage(task, o) ==
  IF o.exc = "CollectorError" THEN o.msg
  ELSE <<"calling failed", task.func, task.id, o.exc>>

\* worker: the next call of func(**kwargs) on shared state
WorkerRun(b, w) ==
  /\ build[b].pc # "idle"
  /\ w \in 1..build[b].nworkers
  /\ build[b].workers[w].state = "running"
  /\ LET wk == build[b].workers[w]
         o == Head(wk.ops)
         rest == Tail(wk.ops)
         after == [wk EXCEPT !.ops = rest,
                     !.state = IF rest = <<>> THEN "finishing" ELSE "running"]
     IN  CASE o.op = "res" ->
                /\ graph' = [graph EXCEPT ![b] =
                     add_resource(@, o.rid, [label |-> o.label], o.rtype,
                                  o.timestamp, "{}")]
                /\ build' = [build EXCEPT ![b].workers[w] = after]
                /\ UNCHANGED <<clock, gs>>
           [] o.op = "rel" ->
                /\ graph' = [graph EXCEPT ![b] =
                     add_relation(@, o.source, o.target, o.kind, NoneStr,
                                  NoneStr, clock)]
                /\ clock' = IF add_relation_calls_now(graph[b], o.source,
                                                      o.target, o.kind)
                              THEN clock + 1 ELSE clock
                /\ build' = [build EXCEPT ![b].workers[w] = after]
                /\ UNCHANGED gs
           [] o.op = "put" ->
                /\ \E p \in RandomPriorities(gs) :
                     build' = [build EXCEPT
                       ![b].workers[w] = after,
                       ![b].input_queue =
                          queue_put(@, Task(p, o.func, o.id, o.parent)),
                       ![b].puts = @ \cup {<<o.func, o.id>>}]
                /\ gs' = AfterRandomPriority(gs)
                /\ UNCHANGED <<clock, graph>>
           [] o.op = "raise" ->
                /\ build' = [build EXCEPT
                     ![b].workers[w] = WorkerAfterRaise(wk),
                     ![b].output_queue = Append(@, WorkerMessage(wk.task, o)),
                     ![b].errors = Append(@,
                        [ task |-> <<wk.task.func, wk.task.id>>,
                          msg |-> WorkerMessage(wk.task, o) ])]
                /\ UNCHANGED <<clock, graph, gs>>
  /\ UNCHANGED <<callLog, lastCall, world, buildLog>>

\* worker: input_queue.task_done()
WorkerTaskDone(b, w) ==
  /\ build[b].pc # "idle"
  /\ w \in 1..build[b].nworkers
  /\ build[b].workers[w].state = "finishing"
  /\ build' = [build EXCEPT
       ![b].input_queue = queue_task_done(@),
       ![b].workers[w] = [@ EXCEPT !.state = "idle"],
       ![b].done = @ \cup {<<build[b].workers[w].task.func,
                             build[b].workers[w].task.id>>}]
  /\ UNCHANGED <<clock, graph, callLog, lastCall, world, gs, buildLog>>

\* the backend data changes between two builds
\* the backend data changes between two builds: to other pods, containers,
\* services and failures, or the properties of the node change and its cache
\* entry gets the time of the change as its timestamp
BackendChange(worlds, maxBuilds) ==
  /\ Running = {}
  /\ Len(buildLog) < maxBuilds
  /\ \/ /\ \E w \in worlds :
             /\ world' = [w EXCEPT !.node_timestamp = world.node_timestamp]
             /\ world' # world
        /\ UNCHANGED clock
     \/ /\ world.nodes # <<>>
        /\ world.node_timestamp = InitialTimestamp
        /\ world' = [world EXCEPT !.node_timestamp = clock]
        /\ clock' = clock + 1
  /\ UNCHANGED <<graph, callLog, lastCall, gs, build, buildLog>>

InitBuild(testing, worlds) ==
  /\ clock = 3
  /\ graph = [b \in Callers |-> NewContextGraph]
  /\ callLog = <<>>
  /\ lastCall = [op |-> "none"]
  /\ world \in worlds
  /\ gs = NewGlobalState(testing, 0)
  /\ build = [b \in Callers |-> IdleBuild]
  /\ buildLog = <<>>

\* a step of the thread that called compute_graph, inside the with block
BuilderStep(b) ==
  \/ StartWorkers(b)
  \/ BeginGraph(b)
  \/ Enqueue(b)
  \/ Join(b)
  \/ Collect(b)
  \/ PutSentinel(b)
  \/ JoinThreads(b)
  \/ Exit(b)

\* a step of worker thread w of the call
WorkerStep(b, w) ==
  \/ WorkerGet(b, w)
  \/ WorkerRun(b, w)
  \/ WorkerTaskDone(b, w)

NextBuild(callers, worlds, maxBuilds) ==
  \/ \E b \in callers : Enter(b, maxBuilds)
  \/ \E b \in callers : BuilderStep(b)
  \/ \E b \in callers, w \in 1..MAX_CONCURRENT_WORKERS : WorkerStep(b, w)
  \/ BackendChange(worlds, maxBuilds)

\* Spec: one caller builds the graph again and again, in production mode or
\* in test mode, while the backend data changes between the builds
Init == \E testing \in BOOLEAN : InitBuild(testing, BuildWorlds)
Next == NextBuild({"A"}, BuildWorlds, MaxBuilds)
Spec == Init /\ [][Next]_vars

\* SpecPool: the worker pool of a build in production mode, over backend
\* data with concurrent and failing tasks
InitPool == InitBuild(FALSE, PoolWorlds)
NextPool == NextBuild({"A"}, PoolWorlds, PoolBuilds)
SpecPool == InitPool /\ [][NextPool]_vars

\* SpecGate: three callers of compute_graph in test mode
InitGate == InitBuild(TRUE, GateWorlds)
NextGate == NextBuild(Callers, GateWorlds, GateBuilds)
SpecGate == InitGate /\ [][NextGate]_vars

\* SpecQueue: three callers of compute_graph in test mode, each blocking in
\* the acquire of the semaphore before it enters.  A thread that can take a
\* step is eventually scheduled.
QueueWorlds == {WorldBare, WorldNodesDown}
InitQueue == InitBuild(TRUE, QueueWorlds)
NextQueue ==
  \/ \E b \in Callers : Arrive(b, QueueBuilds)
  \/ \E b \in Callers : Acquire(b)
  \/ \E b \in Callers : BuilderStep(b)
  \/ \E b \in Callers, w \in 1..MAX_CONCURRENT_WORKERS : WorkerStep(b, w)
FairQueue ==
  \A b \in Callers :
    /\ WF_vars(Acquire(b))
    /\ WF_vars(BuilderStep(b))
    /\ \A w \in 1..MAX_CONCURRENT_WORKERS : WF_vars(WorkerStep(b, w))
SpecQueue == InitQueue /\ [][NextQueue]_vars /\ FairQueue

\* SpecCluster: one build over the cluster of three nodes in test mode (one
\* worker, the containers computed inline, as collector_test.py runs it), or
\* over the cluster of two nodes in production mode with ClusterWorkers
\* worker threads, whose calls on the graph interleave in every way
ClusterWorkers == 2
InitCluster ==
  /\ clock = 3
  /\ graph = [b \in Callers |-> NewContextGraph]
  /\ callLog = <<>>
  /\ lastCall = [op |-> "none"]
  /\ \/ world = WorldCluster /\ gs = NewGlobalState(TRUE, 0)
     \/ world = WorldPair /\ gs = NewGlobalState(FALSE, ClusterWorkers)
  /\ build = [b \in Callers |-> IdleBuild]
  /\ buildLog = <<>>
NextCluster ==
  \/ Enter("A", 1)
  \/ BuilderStep("A")
  \/ \E w \in 1..MAX_CONCURRENT_WORKERS : WorkerStep("A", w)
SpecCluster == InitCluster /\ [][NextCluster]_vars

\* compute_graph(gs, output_format) is called by the handler of an endpoint
\* ('context_graph' by /cluster, 'resources' by /cluster/resources, 'dot' by
\* /debug) or directly with another format; the call before has answered
Request(b, maxBuilds, output_format) ==
  /\ build[b].pc = "idle"
  /\ Len(buildLog) < maxBuilds
  /\ Len(callLog) = Len(buildLog)
  /\ SlotIsFree(gs)
  /\ gs' = [gs EXCEPT !.bounded_semaphore = @ - 1]
  /\ build' = [build EXCEPT
       ![b] = [EnteredBuild EXCEPT !.output_format = output_format]]
  /\ UNCHANGED <<clock, graph, callLog, lastCall, world, buildLog>>

\* a mutant of Respond: only CollectorError is caught
RespondCollectorErrorOnly ==
  LET e == buildLog[Len(callLog) + 1]
      response ==
        IF e.outcome.kind = "raised" /\ e.outcome.exc = "CollectorError"
           /\ e.output_format \in {"context_graph", "resources", "dot"}
          THEN [ success |-> FALSE, timestamp |-> clock,
                 error_message |-> e.outcome.msg ]
          ELSE e.outcome
  IN
  /\ Len(callLog) < Len(buildLog)
  /\ callLog' = Append(callLog, response)
  /\ lastCall' = [op |-> "respond", output_format |-> e.output_format]
  /\ UNCHANGED <<clock, graph, world, gs, build, buildLog>>

\* the rest of the handler after compute_graph has ended: its result, or
\* utilities.make_error of the message of a CollectorError, or of a message
\* naming the type of any other exception.  A direct caller gets the result
\* or the exception itself.
Respond ==
  LET make_error(error_message) ==
        [ success |-> FALSE, timestamp |-> clock,
          error_message |-> error_message ]
      e == buildLog[Len(callLog) + 1]
      response ==
        IF e.output_format \notin {"context_graph", "resources", "dot"}
          THEN e.outcome
        ELSE IF e.outcome.kind = "returned" THEN e.outcome
        ELSE IF e.outcome.exc = "CollectorError"
          THEN make_error(e.outcome.msg)
        ELSE make_error(<<"compute_graph failed with exception",
                          e.output_format, e.outcome.exc>>)
  IN
  /\ Len(callLog) < Len(buildLog)
  /\ callLog' = Append(callLog, response)
  /\ lastCall' = [op |-> "respond", output_format |-> e.output_format]
  /\ UNCHANGED <<clock, graph, world, gs, build, buildLog>>

\* SpecRender: requests in every output format, known or not, over backend
\* data that does not change: two nodes whose tasks two worker threads run
\* concurrently, one node with a pod and a container, no node, a failing
\* fetch of the pods in a task, a failing annotation of the nodes in the
\* builder thread; in production mode with two workers or in test mode
InitRender ==
  LET TwoNodes == [WorldBare EXCEPT !.nodes = <<"n1", "n2">>]
      MetricsDown == [WorldBare EXCEPT !.fail = {"metrics"}]
  IN
  /\ clock = 3
  /\ graph = [b \in Callers |-> NewContextGraph]
  /\ callLog = <<>>
  /\ lastCall = [op |-> "none"]
  /\ world \in {TwoNodes, WorldFull, WorldEmpty, WorldPodsDown,
                WorldNodesDown, MetricsDown}
  /\ \/ gs = NewGlobalState(TRUE, 0)
     \/ gs = NewGlobalState(FALSE, MIN_CONCURRENT_WORKERS)
  /\ build = [b \in Callers |-> IdleBuild]
  /\ buildLog = <<>>
NextRender ==
  \/ \E output_format \in {"context_graph", "resources", "dot", "graph",
                             "bogus"} :
       Request("A", RenderBuilds, output_format)
  \/ BuilderStep("A")
  \/ \E w \in 1..MAX_CONCURRENT_WORKERS : WorkerStep("A", w)
  \/ Respond
SpecRender == InitRender /\ [][NextRender]_vars

\* SpecEdge: one build, in test mode or in production mode with one worker
\* thread, over backend data with the odd cases of the task functions:
\* containers whose parent pod is missing or unknown, or whose node has no
\* pod; a service and a replication controller whose selectors are a
\* dictionary, missing, or not a dictionary.  _do_compute_pod receives from
\* kubernetes.get_pods(gs, node_id) only pods of that node, so its other
\* cases are entered by a build whose worker, inside the task of a node,
\* is at the call of _do_compute_pod with any pod.
InitEdge ==
  LET Orphans ==
        [WorldFull EXCEPT !.containers =
           << [ContainerC1 EXCEPT !.image = NoneStr],
              [ContainerC1 EXCEPT !.id = "c2", !.parent_pod_id = NoneStr,
                                  !.image = NoneStr],
              [ContainerC1 EXCEPT !.id = "c3", !.parent_pod_id = "p9",
                                  !.image = NoneStr] >>]
      NoPods == [WorldFull EXCEPT !.pods = <<>>]
      Selectors(service, rcontroller) ==
        [WorldFull EXCEPT
           !.containers = <<>>,
           !.services = <<[ServiceS1 EXCEPT !.selector = service]>>,
           !.rcontrollers = <<[ServiceS1 EXCEPT !.id = "r1",
                                                !.selector = rcontroller]>>]
      cluster_guid == <<"Cluster", "c">>
      task(node) == Task(1, "_do_compute_node", node, <<>>)
  IN
  /\ callLog = <<>>
  /\ buildLog = <<>>
  /\ \/ /\ clock = 3
        /\ graph = [b \in Callers |-> NewContextGraph]
        /\ lastCall = [op |-> "none"]
        /\ world \in {Orphans, NoPods}
                     \cup { Selectors(x, y) :
                              x, y \in {"app", "missing", "invalid"} }
        /\ \E testing \in BOOLEAN :
             gs = NewGlobalState(testing, IF testing THEN 0 ELSE 1)
        /\ build = [b \in Callers |-> IdleBuild]
     \/ \E node \in {"n1", "n2"}, nodeName \in {"n1", "n2", NoneStr, ""} :
          LET pod == [PodP1 EXCEPT !.nodeName = nodeName]
              node_guid == <<"Node", node>>
          IN
          /\ clock = 4
          /\ world = [WorldBare EXCEPT !.nodes = <<"n1", "n2">>,
                                       !.pods = <<pod>>]
          /\ lastCall = [op |-> "_do_compute_pod", node_guid |-> node_guid,
                         pod |-> pod]
          /\ gs = [NewGlobalState(FALSE, 1) EXCEPT !.bounded_semaphore = @ - 1]
          /\ graph = [b \in Callers |->
               IF b # "A" THEN NewContextGraph
               ELSE add_relation(
                      add_resource(
                        add_resource(set_version(NewContextGraph, "v1"),
                                     cluster_guid, [label |-> "c"], "Cluster",
                                     InitialTimestamp, "{}"),
                        node_guid, [label |-> node], "Node", InitialTimestamp,
                        "{}"),
                      cluster_guid, node_guid, "contains", NoneStr, NoneStr, 3)]
          /\ build = [b \in Callers |->
               IF b # "A" THEN IdleBuild
               ELSE [IdleBuild EXCEPT
                       !.pc = "join",
                       !.output_format = "context_graph",
                       !.world = [WorldBare EXCEPT !.nodes = <<"n1", "n2">>,
                                                   !.pods = <<pod>>],
                       !.nworkers = 1,
                       !.workers =
                          <<[IdleWorker EXCEPT
                               !.state = "running", !.task = task(node),
                               !.ops = do_compute_pod(cluster_guid, node_guid,
                                                      pod)]>>,
                       !.input_queue =
                          queue_get(queue_put(NewQueue, task(node)), task(node)),
                       !.cluster_guid = cluster_guid,
                       !.oldest_timestamp = InitialTimestamp,
                       !.puts = {<<"_do_compute_node", node>>}]]
NextEdge ==
  \/ Enter("A", 1)
  \/ BuilderStep("A")
  \/ \E w \in 1..MAX_CONCURRENT_WORKERS : WorkerStep("A", w)
SpecEdge == InitEdge /\ [][NextEdge]_vars

\* SpecWorkers: compute_graph up to the start of its worker threads, for
\* every setting of the mode and of the number of workers (negative, zero,
\* one, more than MAX_CONCURRENT_WORKERS) and for clusters of no node up to
\* two nodes more than MAX_CONCURRENT_WORKERS, whose node list may fail to
\* be fetched
InitWorkers ==
  LET NodeNames == << "n1", "n2", "n3", "n4", "n5", "n6", "n7", "n8", "n9",
                      "n10", "n11", "n12" >>
  IN
  /\ clock = 3
  /\ graph = [b \in Callers |-> NewContextGraph]
  /\ callLog = <<>>
  /\ lastCall = [op |-> "none"]
  /\ \E testing \in BOOLEAN,
        num_workers \in {-1, 0, 1, MAX_CONCURRENT_WORKERS + 1},
        n \in 0..(MAX_CONCURRENT_WORKERS + 2),
        fail \in {{}, {"nodes"}} :
       /\ world = [WorldBare EXCEPT !.nodes = SubSeq(NodeNames, 1, n),
                                    !.fail = fail]
       /\ gs = NewGlobalState(testing, num_workers)
  /\ build = [b \in Callers |-> IdleBuild]
  /\ buildLog = <<>>
NextWorkers ==
  \/ Enter("A", 1)
  \/ StartWorkers("A")
SpecWorkers == InitWorkers /\ [][NextWorkers]_vars

----------------------------------------------------------------------------
(* class SimpleCache (simple_cache.py).  Times are seconds, whole numbers  *)
(* here.  A cached value is a blob with a 'timestamp' attribute, which     *)
(* utilities.timeless_json_hash ignores, and its other attributes.         *)

\* SimpleCache.__init__
NewSimpleCache(max_data_age_seconds, data_cleanup_age_seconds) ==
  [ max_data_age_seconds |-> max_data_age_seconds,
    data_cleanup_age_seconds |-> data_cleanup_age_seconds,
    label_to_tuple |-> EmptyDict ]

\* utilities.timeless_json_hash: the digest of the blob without its
\* 'timestamp' attribute (two digests are equal when these texts are)
timeless_json_hash(value) == [content |-> value.content]

\* the result of a lookup that misses: (None, None); the None in the place
\* of a blob is written as a blob of Nones
Miss == <<[content |-> NoneStr, timestamp |-> NoneStr], None>>

\* a mutant of cache_lookup: freshness is judged by the create timestamp
cache_lookup_by_create(c, label, now) ==
  IF /\ label \in DOMAIN c.label_to_tuple
     /\ now < c.label_to_tuple[label].create_timestamp + c.max_data_age_seconds
    THEN << c.label_to_tuple[label].value,
            c.label_to_tuple[label].create_timestamp >>
    ELSE Miss

\* SimpleCache.lookup: (value, create_timestamp) of a hit, (None, None) otherwise
cache_lookup(c, label, now) ==
  IF /\ label \in DOMAIN c.label_to_tuple
     /\ now < c.label_to_tuple[label].update_timestamp + c.max_data_age_seconds
    THEN << c.label_to_tuple[label].value,
            c.label_to_tuple[label].create_timestamp >>
    ELSE Miss

\* a mutant of cache_cleanup: nothing is removed
cache_cleanup_nothing(c, now) == c

\* a mutant of cache_cleanup: the age is judged by the update timestamp
cache_cleanup_by_update(c, now) ==
  LET threshold == now - c.data_cleanup_age_seconds
      kept == { key \in DOMAIN c.label_to_tuple :
                  ~(c.label_to_tuple[key].update_timestamp <= threshold) }
  IN  [c EXCEPT !.label_to_tuple = [key \in kept |-> c.label_to_tuple[key]]]

\* SimpleCache._cleanup
cache_cleanup(c, now) ==
  LET threshold == now - c.data_cleanup_age_seconds
      kept == { key \in DOMAIN c.label_to_tuple :
                  ~(c.label_to_tuple[key].create_timestamp <= threshold) }
  IN  [c EXCEPT !.label_to_tuple = [key \in kept |-> c.label_to_tuple[key]]]

\* a mutant of cache_update_keeps: the values are not compared
cache_update_keeps_label(c, label, value, ts) ==
  label \in DOMAIN cache_cleanup(c, ts).label_to_tuple

\* SimpleCache.update finds the label, after the cleanup, with a value of the
\* same timeless hash
cache_update_keeps(c, label, value, ts) ==
  LET d == cache_cleanup(c, ts).label_to_tuple
  IN  /\ label \in DOMAIN d
      /\ timeless_json_hash(value) = timeless_json_hash(d[label].value)

\* a mutant of cache_update: an equal value leaves the update timestamp alone
cache_update_stale(c, label, value, ts) ==
  LET cleaned == cache_cleanup(c, ts)
      old == cleaned.label_to_tuple
  IN  [cleaned EXCEPT !.label_to_tuple =
         IF cache_update_keeps(c, label, value, ts)
           THEN old
           ELSE DictPut(old, label,
                  [ update_timestamp |-> ts, create_timestamp |-> ts,
                    value |-> value ])]

\* a mutant of cache_update: the value passed always replaces the entry
cache_update_replaces(c, label, value, ts) ==
  [cache_cleanup(c, ts) EXCEPT !.label_to_tuple =
     DictPut(@, label, [ update_timestamp |-> ts, create_timestamp |-> ts,
                         value |-> value ])]

\* SimpleCache.update: the cache after the call
cache_update(c, label, value, ts) ==
  LET cleaned == cache_cleanup(c, ts)
      old == cleaned.label_to_tuple
  IN  [cleaned EXCEPT !.label_to_tuple =
         DictPut(old, label,
           IF cache_update_keeps(c, label, value, ts)
             THEN [ update_timestamp |-> ts,
                    create_timestamp |-> old[label].create_timestamp,
                    value |-> old[label].value ]
             ELSE [ update_timestamp |-> ts, create_timestamp |-> ts,
                    value |-> value ])]

\* a mutant of cache_update_returns: the value passed is returned
cache_update_returns_new(c, label, value, ts) == value

\* SimpleCache.update: the value returned
cache_update_returns(c, label, value, ts) ==
  IF cache_update_keeps(c, label, value, ts)
    THEN cache_cleanup(c, ts).label_to_tuple[label].value
    ELSE value

\* SpecCache: one SimpleCache of the global state under arbitrary calls.
\* clock is the wall clock.  A caller of update passes a time it has read
\* before the call (kubernetes.py and docker.py read time.time() after the
\* fetch and before update, so two callers may pass their times out of
\* order); lookup compares with any time it is given.  lastCall records the
\* last call: its arguments, its result and, for an update, whether it found
\* the label with a value of the same timeless hash before its cleanup.
CacheLabels == {"a", "b"}
CacheTimes == 0..MaxTime
CacheValues == [content : {"x", "y"}, timestamp : {"t1", "t2"}]
\* (max_data_age_seconds, data_cleanup_age_seconds) of the caches explored
CacheAges == { <<0, 0>>, <<1, 1>>, <<1, 2>>, <<MaxTime + 1, MaxTime + 1>> }

\* history of the update calls: refreshed[label] is the wall clock of the
\* last update call for the label; last_ts is the time passed to the last
\* update call; serial holds while every update call so far has inserted a
\* label that was not in the cache, one time unit after the call before it
NoUpdateYet == [refreshed |-> EmptyDict, last_ts |-> None, serial |-> TRUE]

InitCache ==
  /\ clock = 0
  /\ graph = <<>>
  /\ callLog = NoUpdateYet
  /\ lastCall = [op |-> "none"]
  /\ world = [nodes |-> <<>>]
  /\ \E ages \in CacheAges : gs = [cache |-> NewSimpleCache(ages[1], ages[2])]
  /\ build = <<>>
  /\ buildLog = <<>>

CacheLookup ==
  /\ \E label \in CacheLabels, now \in CacheTimes :
       lastCall' = [ op |-> "lookup", label |-> label, now |-> now,
                     ret |-> cache_lookup(gs.cache, label, now) ]
  /\ UNCHANGED <<clock, graph, callLog, world, gs, build, buildLog>>

CacheUpdate ==
  /\ \E label \in CacheLabels, value \in CacheValues, ts \in 0..clock :
       /\ gs' = [gs EXCEPT !.cache = cache_update(@, label, value, ts)]
       /\ lastCall' = [ op |-> "update", label |-> label, value |-> value,
                        ts |-> ts,
                        found |-> /\ label \in DOMAIN gs.cache.label_to_tuple
                                  /\ timeless_json_hash(value) =
                                       timeless_json_hash(
                                         gs.cache.label_to_tuple[label].value),
                        ret |-> cache_update_returns(gs.cache, label, value, ts) ]
       /\ callLog' =
            [ refreshed |-> DictPut(callLog.refreshed, label, clock),
              last_ts |-> ts,
              serial |-> /\ callLog.serial
                         /\ label \notin DOMAIN gs.cache.label_to_tuple
                         /\ callLog.last_ts # None => ts = callLog.last_ts + 1 ]
  /\ UNCHANGED <<clock, graph, world, build, buildLog>>

\* time passes
CacheTick ==
  /\ clock < MaxTime
  /\ clock' = clock + 1
  /\ UNCHANGED <<graph, callLog, lastCall, world, gs, build, buildLog>>

NextCache ==
  \/ CacheLookup
  \/ CacheUpdate
  \/ CacheTick

SpecCache == InitCache /\ [][NextCache]_vars

----------------------------------------------------------------------------
(* Properties of the ContextGraph, checked under SpecGraph. *)

\* the add_resource calls of callLog, as indices
ResourceCallIndices ==
  { i \in 1..Len(callLog) : callLog[i].op = "add_resource" }

\* the index of the first add_resource call for rid to take the lock
FirstResourceCall(rid) ==
  CHOOSE i \in ResourceCallIndices :
    /\ callLog[i].rid = rid
    /\ \A j \in ResourceCallIndices : callLog[j].rid = rid => i <= j

\* what the first call for an id asked to be stored; createdBy is the version
\* in force when that call took the lock
FirstCallAnnotations(c) ==
  IF c.version # NoneStr
    THEN [label |-> c.label, createdBy |-> c.version]
    ELSE [label |-> c.label]

\* C1: for any sequence of add_resource calls on one ContextGraph, in the
\* order they take the lock, the resource list holds exactly one entry for
\* every id added and none else, and that entry carries the type, timestamp,
\* annotations and properties of the first call for that id; a later call
\* with the same id changes nothing.
C1_FirstWriterWins ==
  LET res == graph[TheGraph].context_resources
  IN  /\ \A i, j \in 1..Len(res) : res[i].id = res[j].id => i = j
      /\ \A i \in ResourceCallIndices :
            \E k \in 1..Len(res) : res[k].id = callLog[i].rid
      /\ \A k \in 1..Len(res) :
            /\ \E i \in ResourceCallIndices : callLog[i].rid = res[k].id
            /\ LET c == callLog[FirstResourceCall(res[k].id)]
               IN  /\ res[k].type = c.rtype
                   /\ res[k].timestamp = c.timestamp
                   /\ res[k].properties = c.obj
                   /\ res[k].annotations = FirstCallAnnotations(c)

\* C1 witness: the same id was added twice with different arguments, and
\* another id was added too
C1_Witness ==
  /\ \E i, j \in ResourceCallIndices :
        /\ i < j
        /\ callLog[i].rid = callLog[j].rid
        /\ callLog[i].label # callLog[j].label
        /\ callLog[i].timestamp # callLog[j].timestamp
  /\ Len(graph[TheGraph].context_resources) = 2

\* C2: an add_relation(source, target, kind) call without metadata appends
\* exactly one relation, also when the triple is already in the list; its
\* timestamp is the one the previous-build snapshot holds for the triple when
\* that is a non-empty string and the current time otherwise; the timestamp
\* is recorded under the triple in the current-build map.
C2_RelationTimestamp ==
  [][ (lastCall'.op = "add_relation" /\ callLog' # callLog
         /\ lastCall'.metadata = NoneStr)
      => LET g == graph[TheGraph]
             h == graph'[TheGraph]
             key == lastCall'.key
             old == IF key \in DOMAIN g.previous_relations_to_timestamps
                      THEN g.previous_relations_to_timestamps[key] ELSE None
             expected == IF old >= 1 THEN old ELSE clock
             n == Len(g.context_relations)
         IN  /\ Len(h.context_relations) = n + 1
             /\ SubSeq(h.context_relations, 1, n) = g.context_relations
             /\ h.context_relations[n + 1].source = key[1]
             /\ h.context_relations[n + 1].target = key[2]
             /\ h.context_relations[n + 1].type = key[3]
             /\ h.context_relations[n + 1].timestamp = expected
             /\ key \in DOMAIN h.current_relations_to_timestamps
             /\ h.current_relations_to_timestamps[key] = expected
             /\ h.context_resources = g.context_resources
    ]_vars

\* C2 witness: a call without metadata inherited a timestamp from the
\* snapshot for a triple that was already in the list, after an earlier call
\* for the same triple had minted one
C2_Witness ==
  LET g == graph[TheGraph]
      n == Len(g.context_relations)
  IN  /\ lastCall.op = "add_relation"
      /\ lastCall.metadata = NoneStr
      /\ valid_string(DictGet(g.previous_relations_to_timestamps, lastCall.key))
      /\ n >= 2
      /\ g.context_relations[n].timestamp
           = g.previous_relations_to_timestamps[lastCall.key]
      /\ \E i \in 1..(n - 1) :
            /\ g.context_relations[i].source = lastCall.key[1]
            /\ g.context_relations[i].target = lastCall.key[2]
            /\ g.context_relations[i].type = lastCall.key[3]
            /\ g.context_relations[i].timestamp # g.context_relations[n].timestamp

----------------------------------------------------------------------------
(* Properties of successive builds, checked under Spec. *)

\* the triple of a relation
Triple(r) == <<r.source, r.target, r.type>>

\* the relations of the graph an ended compute_graph call returned
RelationsOf(e) ==
  IF e.outcome.kind = "returned"
    THEN { e.outcome.relations[i] : i \in 1..Len(e.outcome.relations) }
    ELSE {}

\* the resources of the graph an ended compute_graph call returned
ResourcesOf(e) ==
  IF e.outcome.kind = "returned"
    THEN { e.outcome.resources[i] : i \in 1..Len(e.outcome.resources) }
    ELSE {}

\* C3: if two full-graph builds run one after the other against unchanged
\* backend data, every relation of the second build's graph has the same
\* timestamp as the relation with the same (source, target, type) of the
\* first build's graph.
C3_SameTimestampsOnRebuild ==
  \A i \in 1..(Len(buildLog) - 1) :
    LET first == buildLog[i]
        second == buildLog[i + 1]
    IN  ( /\ first.world = second.world
          /\ first.outcome.kind = "returned"
          /\ second.outcome.kind = "returned" )
        => \A r2 \in RelationsOf(second) :
             /\ \E r1 \in RelationsOf(first) : Triple(r1) = Triple(r2)
             /\ \A r1 \in RelationsOf(first) :
                  Triple(r1) = Triple(r2) => r1.timestamp = r2.timestamp

\* C3 witness: two successive builds of the same data returned graphs with
\* node, pod and container relations, the second from the map of the first
C3_Witness ==
  \E i \in 1..(Len(buildLog) - 1) :
    /\ buildLog[i].world = buildLog[i + 1].world
    /\ buildLog[i].outcome.kind = "returned"
    /\ buildLog[i + 1].outcome.kind = "returned"
    /\ Cardinality(RelationsOf(buildLog[i + 1])) >= 3
    /\ buildLog[i].stored
    /\ buildLog[i + 1].previous = buildLog[i].kept
    /\ buildLog[i + 1].previous # EmptyDict

LastStoredBefore(j) ==
  LET stored == { i \in 1..(j - 1) : buildLog[i].stored }
  IN  IF stored = {} THEN 0
      ELSE CHOOSE i \in stored : \A k \in stored : k <= i

Untimed(resources) ==
  { [id |-> r.id, type |-> r.type, annotations |-> r.annotations,
     properties |-> r.properties] : r \in resources }

\* C5: when the properties and the timestamp of a node change, no resource
\* id changes, and the graph is built again, every relation has the
\* timestamp it had in the previous build; only resource timestamps and the
\* timestamp of the envelope move.
C5_NodeChangeKeepsRelationTimestamps ==
  \A i \in 1..(Len(buildLog) - 1) :
    LET first == buildLog[i]
        second == buildLog[i + 1]
    IN  ( /\ first.world.node_timestamp # second.world.node_timestamp
          /\ [first.world EXCEPT !.node_timestamp = second.world.node_timestamp]
               = second.world
          /\ first.outcome.kind = "returned"
          /\ second.outcome.kind = "returned" )
        => /\ RelationsOf(second) = RelationsOf(first)
           /\ Untimed(ResourcesOf(second)) = Untimed(ResourcesOf(first))
           /\ second.outcome.success = first.outcome.success

\* C5 witness: the node changed between two builds that returned pod and
\* container relations; the timestamp of the Node resource and the timestamp
\* of the envelope moved
C5_Witness ==
  \E i \in 1..(Len(buildLog) - 1) :
    LET first == buildLog[i]
        second == buildLog[i + 1]
    IN  /\ first.world.node_timestamp # second.world.node_timestamp
        /\ [first.world EXCEPT !.node_timestamp = second.world.node_timestamp]
             = second.world
        /\ first.outcome.kind = "returned"
        /\ second.outcome.kind = "returned"
        /\ Cardinality(RelationsOf(second)) >= 3
        /\ \E r1 \in ResourcesOf(first), r2 \in ResourcesOf(second) :
              r1.id = <<"Node", "n1">> /\ r2.id = r1.id
                /\ r1.timestamp # r2.timestamp
        /\ first.outcome.timestamp # second.outcome.timestamp

----------------------------------------------------------------------------
(* Properties of the worker pool, checked under SpecPool. *)

\* the caller of SpecPool and its compute_graph call
PoolCaller == "A"
PoolBuild == build[PoolCaller]

\* the worker threads of the call, and those that have not returned
PoolWorkers == 1..PoolBuild.nworkers
AliveWorkers == { w \in PoolWorkers : PoolBuild.workers[w].state # "exited" }

\* the calls a task makes, and whether it ends by raising
PoolTaskOps(t) ==
  TaskOps(PoolBuild.world, gs.testing, PoolBuild.cluster_guid,
          PoolBuild.oldest_timestamp, [func |-> t[1], id |-> t[2], parent |-> <<>>])
TaskRaises(t) ==
  PoolTaskOps(t) # <<>> /\ PoolTaskOps(t)[Len(PoolTaskOps(t))].op = "raise"

\* the messages the workers have put on the error queue, in order
ErrorMessages == [i \in 1..Len(PoolBuild.errors) |-> PoolBuild.errors[i].msg]

\* C6: a task that raises, CollectorError or any other exception, does not
\* end its worker thread: the worker puts exactly one message for the task
\* on the error queue, marks the task done and goes on to take the next
\* item; a task that does not raise puts nothing on the error queue.
C6_WorkerSurvivesRaisingTask ==
  /\ \A w \in PoolWorkers :
        LET wk == PoolBuild.workers[w]
        IN  /\ wk.state = "exited" <=> wk.sentinels = 1
            /\ wk.sentinels <= 1
  /\ \A i, j \in 1..Len(PoolBuild.errors) :
        PoolBuild.errors[i].task = PoolBuild.errors[j].task => i = j
  /\ \A i \in 1..Len(PoolBuild.errors) : TaskRaises(PoolBuild.errors[i].task)
  /\ \A t \in PoolBuild.done :
        TaskRaises(t) <=> \E i \in 1..Len(PoolBuild.errors) :
                             PoolBuild.errors[i].task = t
  /\ \/ PoolBuild.output_queue = ErrorMessages
     \/ /\ PoolBuild.joined
        /\ PoolBuild.pc \in {"cleanup", "exit"}
        /\ ErrorMessages # <<>>
        /\ PoolBuild.output_queue = Tail(ErrorMessages)
  /\ \A i \in 1..Len(PoolBuild.errors) :
        \/ PoolBuild.errors[i].task \in PoolBuild.done
        \/ \E w \in PoolWorkers :
              /\ PoolBuild.workers[w].state = "finishing"
              /\ <<PoolBuild.workers[w].task.func, PoolBuild.workers[w].task.id>>
                   = PoolBuild.errors[i].task

\* C6 witness: a worker that caught a ValueError of a container task and
\* marked the task done is running its next task
C6_Witness ==
  \E w \in PoolWorkers :
    /\ PoolBuild.workers[w].caught = 1
    /\ PoolBuild.workers[w].state = "running"
    /\ Len(PoolBuild.errors) = 1
    /\ PoolBuild.errors[1].task = <<"_do_compute_container", "c1">>
    /\ PoolBuild.errors[1].msg[1] = "calling failed"
    /\ PoolBuild.errors[1].task \in PoolBuild.done
    /\ PoolBuild.output_queue = <<PoolBuild.errors[1].msg>>

\* C7 as stated: if at least one task of a build raised, compute_graph
\* raises CollectorError with the first message put on the error queue, and
\* neither renders a graph nor stores the build's map; a graph is returned
\* only when no task failed.
C7_RaisesFirstQueuedMessage ==
  \A i \in 1..Len(buildLog) :
    LET e == buildLog[i]
    IN  /\ e.errors # <<>> =>
              /\ e.outcome.kind = "raised"
              /\ e.outcome.exc = "CollectorError"
              /\ e.outcome.msg = e.errors[1].msg
              /\ ~e.stored
              /\ e.kept = e.previous
        /\ e.outcome.kind = "returned" => e.errors = <<>>

\* C7, amended: if at least one task of a build raised, compute_graph raises
\* and neither renders a graph nor stores the build's map; when the builder
\* got as far as the return of input_queue.join(), it raises CollectorError
\* with the first message put on the error queue (before that it raises the
\* exception of its own failed call); a graph is returned only when no task
\* failed.
C7_FailedTaskFailsBuild ==
  \A i \in 1..Len(buildLog) :
    LET e == buildLog[i]
    IN  /\ e.errors # <<>> =>
              /\ e.outcome.kind = "raised"
              /\ ~e.stored
              /\ e.kept = e.previous
              /\ e.joined => /\ e.outcome.exc = "CollectorError"
                             /\ e.outcome.msg = e.errors[1].msg
        /\ e.outcome.kind = "returned" => e.errors = <<>>

\* C7 witness: three tasks raised, with two different messages; the join
\* returned and compute_graph raised the first message, which is not the last
C7_Witness ==
  \E i \in 1..Len(buildLog) :
    LET e == buildLog[i]
    IN  /\ Len(e.errors) = 3
        /\ e.joined
        /\ e.outcome.kind = "raised"
        /\ e.outcome.msg = e.errors[1].msg
        /\ e.outcome.msg # e.errors[3].msg

\* C8: when input_queue.join() returns in _do_compute_graph, every task put
\* on the queue for this build, the container tasks put by node tasks on
\* worker threads included, has finished: no task is queued, running or
\* about to be marked done.  The count of unfinished tasks is not zero after
\* the builder's last put while a running task can still put a child.
C8_JoinWaitsForAllTasks ==
  ( \/ PoolBuild.pc = "collect"
    \/ PoolBuild.pc = "join" /\ queue_join_returns(PoolBuild.input_queue) )
  => /\ PoolBuild.puts = PoolBuild.done
     /\ PoolBuild.input_queue.tasks = {}
     /\ \A w \in PoolWorkers : PoolBuild.workers[w].state = "idle"
     /\ \A t \in PoolBuild.done :
          \A k \in 1..Len(PoolTaskOps(t)) :
            PoolTaskOps(t)[k].op = "put" =>
              <<PoolTaskOps(t)[k].func, PoolTaskOps(t)[k].id>> \in PoolBuild.done

\* C8 witness: the join has returned after a container task, put by the
\* node task on a worker thread, finished
C8_Witness ==
  /\ PoolBuild.pc = "collect"
  /\ <<"_do_compute_container", "c1">> \in PoolBuild.done
  /\ Cardinality(PoolBuild.done) = 4

\* C9: when compute_graph returns or raises, every worker thread it started
\* has exited: the cleanup block puts one sentinel per worker, each worker
\* takes exactly one sentinel and leaves its loop, and all threads are
\* joined; once the sentinels are put, every worker still in its loop has a
\* sentinel waiting in the queue, so none stays blocked.
C9_AllWorkersExit ==
  /\ \A w \in PoolWorkers :
        LET wk == PoolBuild.workers[w]
        IN  /\ wk.sentinels <= 1
            /\ wk.sentinels = 1 => wk.state = "exited"
  /\ PoolBuild.sentinels_put <= PoolBuild.nworkers
  /\ ( /\ PoolBuild.pc = "cleanup"
       /\ PoolBuild.sentinels_put >= SentinelsToPut(PoolBuild.nworkers) )
     => Cardinality(AliveWorkers) = PoolBuild.input_queue.sentinels
  /\ PoolBuild.pc = "exit" =>
        /\ AliveWorkers = {}
        /\ PoolBuild.input_queue.sentinels = 0
        /\ PoolBuild.sentinels_put = PoolBuild.nworkers
  /\ \A i \in 1..Len(buildLog) : buildLog[i].alive = 0

\* C9 witness: compute_graph is about to raise the exception of the builder,
\* its two workers have exited with one sentinel each, and a task is left in
\* the queue
C9_Witness ==
  /\ PoolBuild.pc = "exit"
  /\ PoolBuild.outcome.kind = "raised"
  /\ ~PoolBuild.joined
  /\ PoolBuild.nworkers = 2
  /\ \A w \in PoolWorkers : PoolBuild.workers[w].state = "exited"
                              /\ PoolBuild.workers[w].sentinels = 1
  /\ PoolBuild.errors # <<>>

----------------------------------------------------------------------------
(* Properties of the gate of compute_graph, checked under SpecGate. *)

\* C10: at every moment at most MAX_CONCURRENT_COMPUTE_GRAPH (2)
\* compute_graph calls are inside the gated section, and a call that leaves
\* it by an exception releases its slot: the number of free slots is 2
\* whenever no build is running.
C10_AtMostTwoBuilds ==
  /\ Cardinality(Running) <= MAX_CONCURRENT_COMPUTE_GRAPH
  /\ gs.bounded_semaphore = MAX_CONCURRENT_COMPUTE_GRAPH - Cardinality(Running)
  /\ Running = {} => gs.bounded_semaphore = 2

\* C10 witness: after a call that raised, two calls are inside the section,
\* no slot is free and the third caller is outside
C10_Witness ==
  /\ \E i \in 1..Len(buildLog) : buildLog[i].outcome.kind = "raised"
  /\ Cardinality(Running) = 2
  /\ gs.bounded_semaphore = 0

----------------------------------------------------------------------------
(* Properties of the blocked callers, checked under SpecQueue. *)

\* C11: a compute_graph call that arrives while 2 builds are in flight is
\* not rejected and does not fail because of the gate: it blocks, its only
\* step is to take a slot that is free, neither its arrival nor its entry
\* changes the builds already running, and, the running builds finishing,
\* it eventually takes a slot and starts its own build.
C11_BlockedCallerEnters ==
  /\ [][ \A b \in Callers :
           build[b].pc = "waiting" =>
             \/ build'[b] = build[b]
             \/ /\ gs.bounded_semaphore > 0
                /\ build'[b].pc = "start_workers"
                /\ build'[b].outcome = [kind |-> "none"] ]_vars
  /\ [][ \A b \in Callers :
           (build[b].pc \in {"idle", "waiting"} /\ build'[b] # build[b]) =>
             /\ \A c \in Callers \ {b} : build'[c] = build[c]
             /\ graph' = graph
             /\ gs'.relations_to_timestamps = gs.relations_to_timestamps
             /\ gs'.sequence_number = gs.sequence_number ]_vars
  /\ \A b \in Callers :
       (build[b].pc = "waiting") ~> (build[b].pc = "start_workers")

\* C11 witness: a caller is blocked while two builds are in flight, one of
\* them in its cleanup block after an exception
C11_Witness ==
  \E b \in Callers :
    /\ build[b].pc = "waiting"
    /\ gs.bounded_semaphore = 0
    /\ Cardinality(Running) = 2
    /\ \E c \in Running : build[c].pc = "cleanup"
                            /\ build[c].outcome.kind = "raised"

----------------------------------------------------------------------------
(* The elapsed time records of GlobalState: add_elapsed appends a record to *)
(* a bounded FIFO, dropping the oldest records when it is full, and         *)
(* get_elapsed returns the records and empties the queue.  Each call is one *)
(* step: the calls of concurrent threads happen in some order.              *)

\* the last n elements of a sequence
LastN(seq, n) ==
  IF Len(seq) <= n THEN seq ELSE SubSeq(seq, Len(seq) - n + 1, Len(seq))

\* the record add_elapsed stores
ElapsedRecord(start_time, what, elapsed_seconds, thread_identifier) ==
  [ start_time |-> start_time, what |-> what,
    elapsed_seconds |-> elapsed_seconds,
    thread_identifier |-> thread_identifier ]

\* a mutant of add_elapsed: the queue is not bounded
add_elapsed_unbounded(g, start_time, what, elapsed_seconds, thread) ==
  [g EXCEPT !.elapsed_queue =
     Append(@, ElapsedRecord(start_time, what, elapsed_seconds, thread))]

\* GlobalState.add_elapsed, called by the thread thread_identifier
add_elapsed(g, start_time, what, elapsed_seconds, thread_identifier) ==
  [g EXCEPT !.elapsed_queue =
     Append(LastN(@, g.max_elapsed_queue_size - 1),
            ElapsedRecord(start_time, what, elapsed_seconds,
                          thread_identifier))]

\* GlobalState.get_elapsed: the list returned
get_elapsed_returns(g) == g.elapsed_queue

\* a mutant of get_elapsed: the records stay in the queue
get_elapsed_keeps(g) == g

\* GlobalState.get_elapsed: the state after
get_elapsed(g) == [g EXCEPT !.elapsed_queue = <<>>]

\* SpecElapsed: threads add records and drain the queue in any order.
\* callLog is the history: the arguments of the add_elapsed calls since the
\* last get_elapsed, and all the records the get_elapsed calls have returned.
ElapsedThreads == {"t1", "t2"}
ElapsedLabels == {"abc", "url"}

InitElapsed ==
  /\ clock = 0
  /\ graph = <<>>
  /\ callLog = [added |-> <<>>, returned |-> <<>>]
  /\ lastCall = [op |-> "none"]
  /\ world = [nodes |-> <<>>]
  /\ gs = [ elapsed_queue |-> <<>>,
            max_elapsed_queue_size |-> ElapsedQueueSize ]
  /\ build = <<>>
  /\ buildLog = <<>>

\* a thread records an operation that started at the time of the clock
AddElapsed ==
  /\ clock < MaxElapsed
  /\ \E t \in ElapsedThreads, what \in ElapsedLabels :
       /\ gs' = add_elapsed(gs, clock, what, 13, t)
       /\ callLog' = [callLog EXCEPT !.added =
            Append(@, [ start_time |-> clock, what |-> what,
                        elapsed_seconds |-> 13,
                        thread_identifier |-> t ])]
       /\ lastCall' = [op |-> "add_elapsed", thread |-> t]
  /\ clock' = clock + 1
  /\ UNCHANGED <<graph, world, build, buildLog>>

\* a thread drains the queue
GetElapsed ==
  /\ \E t \in ElapsedThreads :
       lastCall' = [ op |-> "get_elapsed", thread |-> t,
                     added |-> callLog.added,
                     ret |-> get_elapsed_returns(gs) ]
  /\ gs' = get_elapsed(gs)
  /\ callLog' = [ added |-> <<>>,
                  returned |-> callLog.returned \o get_elapsed_returns(gs) ]
  /\ UNCHANGED <<clock, graph, world, build, buildLog>>

NextElapsed ==
  \/ AddElapsed
  \/ GetElapsed

SpecElapsed == InitElapsed /\ [][NextElapsed]_vars

----------------------------------------------------------------------------
(* GlobalState.get_random_priority called by concurrent threads.  The body  *)
(* runs under _random_lock; in test mode "self._sequence_number += 1" is a  *)
(* load and a store, and the value returned is read after the store.        *)

PriorityThreads == {"t1", "t2"}

\* a mutant of random_lock_free: the lock excludes nobody
random_lock_free_always(holder) == TRUE

\* "with self._random_lock" may be entered
random_lock_free(holder) == holder = NoneStr

\* SpecPriority: build holds the lock's holder and each thread's position
\* and local value, callLog the values returned in test mode in the order of
\* the returns, clock the number of calls started.
InitPriority ==
  /\ clock = 0
  /\ graph = <<>>
  /\ callLog = <<>>
  /\ lastCall = [op |-> "none"]
  /\ world = [nodes |-> <<>>]
  /\ \E testing \in BOOLEAN : gs = NewGlobalState(testing, 0)
  /\ build = [ random_lock |-> NoneStr,
               pc |-> [t \in PriorityThreads |-> "idle"],
               local |-> [t \in PriorityThreads |-> 0] ]
  /\ buildLog = <<>>

\* a thread calls get_random_priority and enters the lock
PriorityEnter(t) ==
  /\ clock < MaxPriorityCalls
  /\ build.pc[t] = "idle"
  /\ random_lock_free(build.random_lock)
  /\ build' = [build EXCEPT !.random_lock = t, !.pc[t] = "locked"]
  /\ clock' = clock + 1
  /\ UNCHANGED <<graph, callLog, lastCall, world, gs, buildLog>>

\* a step of "self._sequence_number += 1" in test mode: the load, then the
\* store
PriorityStep(t) ==
  /\ gs.testing
  /\ \/ /\ build.pc[t] = "locked"
        /\ build' = [build EXCEPT !.pc[t] = "loaded",
                                  !.local[t] = gs.sequence_number]
        /\ gs' = gs
     \/ /\ build.pc[t] = "loaded"
        /\ build' = [build EXCEPT !.pc[t] = "stored"]
        /\ gs' = [gs EXCEPT !.sequence_number = build.local[t] + 1]
  /\ UNCHANGED <<clock, graph, callLog, lastCall, world, buildLog>>

\* the return: the sequence number read again in test mode, the value of
\* random.randint(0, 1000) in production mode; leaving the with block
\* releases the lock
PriorityReturn(t) ==
  /\ build.pc[t] = (IF gs.testing THEN "stored" ELSE "locked")
  /\ \E ret \in (IF gs.testing THEN {gs.sequence_number}
                  ELSE 0..MAX_PRIORITY) :
       /\ lastCall' = [op |-> "get_random_priority", thread |-> t,
                       ret |-> ret]
       /\ callLog' = IF gs.testing THEN Append(callLog, ret) ELSE callLog
  /\ build' = [build EXCEPT !.pc[t] = "idle", !.local[t] = 0,
                            !.random_lock =
                              IF @ = t THEN NoneStr ELSE @]
  /\ UNCHANGED <<clock, graph, world, gs, buildLog>>

NextPriority ==
  \E t \in PriorityThreads :
    \/ PriorityEnter(t)
    \/ PriorityStep(t)
    \/ PriorityReturn(t)

SpecPriority == InitPriority /\ [][NextPriority]_vars

----------------------------------------------------------------------------
(* Properties of the SimpleCache, checked under SpecCache. *)

\* the entries of the cache
CacheEntries == gs.cache.label_to_tuple

\* the step is an update call, whose arguments and result are in lastCall'
\* (an update call that leaves the cache and lastCall as they were changes
\* nothing at all)
UpdateStep == lastCall'.op = "update" /\ <<gs, lastCall>>' # <<gs, lastCall>>

\* the entry of the label is removed by the cleanup of an update at time ts
Expired(label, ts) ==
  CacheEntries[label].create_timestamp <= ts - gs.cache.data_cleanup_age_seconds

\* the value passed has the timeless hash of the value stored for the label
SameContent(label, value) ==
  timeless_json_hash(value) = timeless_json_hash(CacheEntries[label].value)

\* C12: lookup(label, now) returns (stored value, createTimestamp) exactly
\* when the label is present and now < updateTimestamp + maxAge, and
\* (None, None) otherwise; the age of createTimestamp plays no part.
C12_LookupFreshness ==
  /\ \A label \in CacheLabels, now \in CacheTimes :
        LET fresh == /\ label \in DOMAIN CacheEntries
                     /\ now < CacheEntries[label].update_timestamp
                                + gs.cache.max_data_age_seconds
        IN  cache_lookup(gs.cache, label, now) =
              IF fresh THEN << CacheEntries[label].value,
                               CacheEntries[label].create_timestamp >>
                       ELSE Miss
  /\ lastCall.op = "lookup" =>
        lastCall.ret = cache_lookup(gs.cache, lastCall.label, lastCall.now)

\* C12 witness: a lookup hit an entry whose createTimestamp is older than
\* maxAge, the entry having been updated since with an equal value
C12_Witness ==
  /\ lastCall.op = "lookup"
  /\ lastCall.ret # Miss
  /\ lastCall.ret[2] + gs.cache.max_data_age_seconds <= lastCall.now
  /\ gs.cache.max_data_age_seconds > 0

\* C13: update(label, v', t) on a label whose stored value is semantically
\* equal to v' (and which the cleanup of this call does not remove) keeps the
\* stored value and createTimestamp, sets updateTimestamp to t and returns
\* the old stored value, not v'; so repeated equal updates never change the
\* value or the createTimestamp.
C13_EqualUpdateKeepsEntry ==
  [][ UpdateStep =>
        LET label == lastCall'.label
            ts == lastCall'.ts
        IN  ( /\ label \in DOMAIN CacheEntries
              /\ SameContent(label, lastCall'.value)
              /\ ~Expired(label, ts) )
            => /\ label \in DOMAIN CacheEntries'
               /\ CacheEntries'[label].value = CacheEntries[label].value
               /\ CacheEntries'[label].create_timestamp =
                    CacheEntries[label].create_timestamp
               /\ CacheEntries'[label].update_timestamp = ts
               /\ lastCall'.ret = CacheEntries[label].value ]_vars

\* C13 witness: an update has returned the old stored value, which differs
\* from the value passed in its 'timestamp' attribute, and the entry is
\* older than its last update
C13_Witness ==
  /\ lastCall.op = "update"
  /\ lastCall.ret # lastCall.value
  /\ lastCall.label \in DOMAIN CacheEntries
  /\ CacheEntries[lastCall.label].value = lastCall.ret
  /\ CacheEntries[lastCall.label].update_timestamp = lastCall.ts
  /\ CacheEntries[lastCall.label].create_timestamp < lastCall.ts

\* C14: update(label, v, t) on an absent label or with a semantically
\* different value stores v with createTimestamp = updateTimestamp = t and
\* returns v; a lookup that follows inside the freshness window returns v
\* and t.
C14_NewValueStored ==
  [][ UpdateStep =>
        LET label == lastCall'.label
            ts == lastCall'.ts
            v == lastCall'.value
        IN  ( \/ label \notin DOMAIN CacheEntries
              \/ ~SameContent(label, v) )
            => /\ label \in DOMAIN CacheEntries'
               /\ CacheEntries'[label] =
                    [ update_timestamp |-> ts, create_timestamp |-> ts,
                      value |-> v ]
               /\ lastCall'.ret = v
               /\ \A now \in CacheTimes :
                    (ts <= now /\ now < ts + gs.cache.max_data_age_seconds)
                      => cache_lookup(gs'.cache, label, now) = <<v, ts>> ]_vars

\* C14 witness: an update at a time after 0 has stored the value passed
\* as a new entry, which a lookup at that time returns, next to an older
\* entry of the other label
C14_Witness ==
  /\ lastCall.op = "update"
  /\ lastCall.ts > 0
  /\ lastCall.ret = lastCall.value
  /\ lastCall.label \in DOMAIN CacheEntries
  /\ CacheEntries[lastCall.label].create_timestamp = lastCall.ts
  /\ cache_lookup(gs.cache, lastCall.label, lastCall.ts)
       = <<lastCall.value, lastCall.ts>>
  /\ \E other \in DOMAIN CacheEntries :
       CacheEntries[other].create_timestamp < lastCall.ts

\* C15 as stated: every update call on an entry makes its updateTimestamp
\* greater than it was, and its createTimestamp advances only in calls whose
\* value is semantically different.
C15_UpdateAlwaysAdvances ==
  [][ UpdateStep =>
        LET label == lastCall'.label
        IN  label \in DOMAIN CacheEntries
            => /\ CacheEntries'[label].update_timestamp
                    > CacheEntries[label].update_timestamp
               /\ CacheEntries'[label].create_timestamp
                    > CacheEntries[label].create_timestamp
                  => ~SameContent(label, lastCall'.value) ]_vars

\* C15 amended: every update call sets the entry's updateTimestamp to the
\* time t of the call, so it advances exactly when t is greater than the
\* stored one; the createTimestamp changes, to t, exactly in the calls whose
\* value is semantically different or whose cleanup removes the entry, and
\* stays in the others.
C15_UpdateSetsTimestamp ==
  [][ UpdateStep =>
        LET label == lastCall'.label
            ts == lastCall'.ts
        IN  /\ label \in DOMAIN CacheEntries'
            /\ CacheEntries'[label].update_timestamp = ts
            /\ label \in DOMAIN CacheEntries
               => /\ ( CacheEntries'[label].update_timestamp
                         > CacheEntries[label].update_timestamp )
                       <=> ts > CacheEntries[label].update_timestamp
                  /\ IF ~SameContent(label, lastCall'.value) \/ Expired(label, ts)
                       THEN CacheEntries'[label].create_timestamp = ts
                       ELSE CacheEntries'[label].create_timestamp
                              = CacheEntries[label].create_timestamp ]_vars

\* C15 witness: an update with an equal value has passed a time read before
\* the entry was created, so the updateTimestamp of the entry has gone back
\* behind its createTimestamp
C15_Witness ==
  /\ lastCall.op = "update"
  /\ lastCall.ts < clock
  /\ lastCall.label \in DOMAIN CacheEntries
  /\ CacheEntries[lastCall.label].update_timestamp = lastCall.ts
  /\ CacheEntries[lastCall.label].create_timestamp > lastCall.ts

\* what every update call does to the entries that are old at its time t:
\* an entry of another key that was last refreshed (by an update call at wall
\* clock callLog.refreshed[key]) more than cleanupAge before t, or whose
\* createTimestamp is at or before t - cleanupAge, is absent after the call;
\* the entry of the key of the call is written anew with createTimestamp t
CleanupOnUpdate ==
  [][ UpdateStep =>
        LET label == lastCall'.label
            ts == lastCall'.ts
        IN  \A key \in DOMAIN CacheEntries :
              ( \/ callLog.refreshed[key]
                     < ts - gs.cache.data_cleanup_age_seconds
                \/ Expired(key, ts) )
              => IF key = label
                   THEN CacheEntries'[key].create_timestamp = ts
                   ELSE key \notin DOMAIN CacheEntries' ]_vars

----------------------------------------------------------------------------
(* Properties of the graph a build returns, checked under Spec and         *)
(* SpecCluster.                                                            *)

\* the backend returns an empty list of nodes
NoNodes(w) == w.nodes = <<>> /\ ~FetchFails(w, "nodes")

\* C18: when the node list is empty the build returns at once a success
\* envelope with an empty resources list: no Cluster resource is created, no
\* task is enqueued and no error is raised.
C18_EmptyNodeList ==
  /\ \A b \in Running :
        NoNodes(build[b].world)
        => /\ graph[b].context_resources = <<>>
           /\ graph[b].context_relations = <<>>
           /\ build[b].puts = {}
           /\ build[b].input_queue.tasks = {}
           /\ build[b].errors = <<>>
           /\ build[b].pc \in {"start_workers", "compute", "cleanup", "exit"}
           /\ build[b].pc \in {"cleanup", "exit"}
              => /\ build[b].outcome.kind = "returned"
                 /\ build[b].outcome.success
                 /\ build[b].outcome.resources = <<>>
  /\ \A i \in 1..Len(buildLog) :
        NoNodes(buildLog[i].world)
        => /\ buildLog[i].outcome.kind = "returned"
           /\ buildLog[i].outcome.success
           /\ buildLog[i].outcome.resources = <<>>
           /\ buildLog[i].errors = <<>>
           /\ ~buildLog[i].joined

\* C18 witness: a build with worker threads has returned for an empty node
\* list, after a build that returned a Cluster resource
C18_Witness ==
  \E i \in 1..Len(buildLog), j \in 1..Len(buildLog) :
    /\ j < i
    /\ ~gs.testing
    /\ NoNodes(buildLog[i].world)
    /\ buildLog[i].outcome.kind = "returned"
    /\ buildLog[j].outcome.kind = "returned"
    /\ buildLog[j].outcome.resources # <<>>

\* the number of resources of a type, and of relations of a type between
\* resources of two types, in a rendered context graph
CountResources(out, rtype) ==
  Cardinality({ i \in 1..Len(out.resources) : out.resources[i].type = rtype })
CountRelations(out, kind, source_type, target_type) ==
  Cardinality({ i \in 1..Len(out.relations) :
                  /\ out.relations[i].type = kind
                  /\ out.relations[i].source[1] = source_type
                  /\ out.relations[i].target[1] = target_type })

----------------------------------------------------------------------------
(* Properties of the elapsed time records, checked under SpecElapsed. *)

\* C20: get_elapsed returns the records added by add_elapsed since the
\* previous get_elapsed (the last ones that fit in the queue, all of them
\* when they fit), in the order in which they were added, each with the
\* start time, label, duration and thread identifier of its add_elapsed
\* call, and empties the queue: a get_elapsed with no add since the one
\* before returns the empty list; whatever the order of the calls of
\* concurrent threads, no record is returned by two get_elapsed calls.
C20_DrainReturnsAddedOnce ==
  /\ gs.elapsed_queue = LastN(callLog.added, gs.max_elapsed_queue_size)
  /\ lastCall.op = "get_elapsed"
     => /\ lastCall.ret = LastN(lastCall.added, gs.max_elapsed_queue_size)
        /\ Len(lastCall.added) <= gs.max_elapsed_queue_size
           => lastCall.ret = lastCall.added
        /\ lastCall.added = <<>> => lastCall.ret = <<>>
        /\ gs.elapsed_queue = <<>>
  /\ \A i, j \in 1..Len(callLog.returned) :
        callLog.returned[i] = callLog.returned[j] => i = j

\* C20 witness: a get_elapsed of one thread has returned two records, added
\* by two threads since the get_elapsed before it, which had returned one
C20_Witness ==
  /\ lastCall.op = "get_elapsed"
  /\ Len(lastCall.ret) = 2
  /\ lastCall.ret[1].thread_identifier # lastCall.ret[2].thread_identifier
  /\ lastCall.ret[1].thread_identifier = lastCall.thread
  /\ Len(callLog.returned) = 3
  /\ gs.elapsed_queue = <<>>

\* C21: the elapsed time queue never holds more records than its capacity;
\* an add_elapsed on a full queue drops the oldest record and appends the
\* new one at the end; a get_elapsed returns at most as many records as the
\* capacity, and they are the most recent ones added, in the order in which
\* they were added.
C21_QueueBounded ==
  /\ [](/\ Len(gs.elapsed_queue) <= gs.max_elapsed_queue_size
        /\ lastCall.op = "get_elapsed"
           => /\ Len(lastCall.ret) <= gs.max_elapsed_queue_size
              /\ \A i \in 1..Len(lastCall.ret) :
                    lastCall.ret[i] =
                      lastCall.added[Len(lastCall.added)
                                     - Len(lastCall.ret) + i]
              /\ Len(lastCall.ret) =
                   IF Len(lastCall.added) < gs.max_elapsed_queue_size
                   THEN Len(lastCall.added)
                   ELSE gs.max_elapsed_queue_size)
  /\ [][ /\ lastCall'.op = "add_elapsed"
         /\ gs' # gs
         /\ Len(gs.elapsed_queue) = gs.max_elapsed_queue_size
         => /\ Len(gs'.elapsed_queue) = gs.max_elapsed_queue_size
            /\ \A i \in 1..(Len(gs.elapsed_queue) - 1) :
                  gs'.elapsed_queue[i] = gs.elapsed_queue[i + 1]
            /\ gs'.elapsed_queue[Len(gs'.elapsed_queue)].start_time
                 = clock ]_vars

\* C21 witness: three records were added to the queue of capacity two and
\* the get_elapsed after them has returned the last two of them
C21_Witness ==
  /\ lastCall.op = "get_elapsed"
  /\ Len(lastCall.added) > gs.max_elapsed_queue_size
  /\ Len(lastCall.ret) = gs.max_elapsed_queue_size
  /\ lastCall.ret[1] = lastCall.added[2]
  /\ lastCall.ret[1] # lastCall.added[1]

----------------------------------------------------------------------------
(* Properties of get_random_priority, checked under SpecPriority. *)

\* C22: in test mode the values get_random_priority returns are strictly
\* increasing in the order of the returns, so no two calls, concurrent or
\* not, receive the same value; in production mode every value returned is
\* an integer between 0 and 1000.
C22_PriorityValues ==
  /\ gs.testing
     => /\ \A i, j \in 1..Len(callLog) : i < j => callLog[i] < callLog[j]
        /\ lastCall.op = "get_random_priority"
           => lastCall.ret = callLog[Len(callLog)]
  /\ ~gs.testing /\ lastCall.op = "get_random_priority"
     => lastCall.ret \in Int /\ 0 <= lastCall.ret /\ lastCall.ret <= 1000

\* C22 witness: in test mode the two threads have made three calls of
\* get_random_priority, which returned 1, 2 and 3, the last one to t2
C22_Witness ==
  /\ gs.testing
  /\ callLog = <<1, 2, 3>>
  /\ lastCall.op = "get_random_priority"
  /\ lastCall.thread = "t2"
  /\ gs.sequence_number = 3

----------------------------------------------------------------------------
(* Properties of the number of worker threads, checked under SpecWorkers. *)

\* C23: compute_graph starts exactly one worker thread in test mode;
\* otherwise as many as the configured number when that is greater than
\* zero; otherwise as many as there are nodes, but at least
\* MIN_CONCURRENT_WORKERS (2) and at most MAX_CONCURRENT_WORKERS (10).  In
\* this last case the node list is fetched to count the nodes: when that
\* fetch fails no thread is started and compute_graph raises.
C23_NumberOfWorkerThreads ==
  LET b == build["A"]
      nodes == Len(b.world.nodes)
      started == Cardinality(DOMAIN b.workers)
  IN
  /\ b.pc = "compute"
     => /\ started = b.nworkers
        /\ gs.testing => started = 1
        /\ ~gs.testing /\ gs.num_workers > 0 => started = gs.num_workers
        /\ ~gs.testing /\ gs.num_workers <= 0
           => /\ "nodes" \notin b.world.fail
              /\ nodes < 2 => started = 2
              /\ nodes > 10 => started = 10
              /\ nodes >= 2 /\ nodes <= 10 => started = nodes
  /\ b.pc = "exit"
     => /\ started = 0
        /\ ~gs.testing /\ gs.num_workers <= 0
        /\ "nodes" \in b.world.fail
        /\ b.outcome.kind = "raised"

\* C23 witness: in production mode with no configured number, compute_graph
\* has started ten worker threads for a cluster of twelve nodes
C23_Witness ==
  /\ build["A"].pc = "compute"
  /\ ~gs.testing
  /\ gs.num_workers = 0
  /\ Len(build["A"].world.nodes) = 12
  /\ Cardinality(DOMAIN build["A"].workers) = 10

----------------------------------------------------------------------------
(* Properties of the output formats and of the endpoints' answers, checked *)
(* under SpecRender.                                                       *)

\* the ended compute_graph calls with the given output format
CallsWith(output_format) ==
  { i \in 1..Len(buildLog) : buildLog[i].output_format = output_format }

\* the call ended by an exception that a fetch failure also raises
FailedLikeFetch(e) ==
  e.outcome.kind = "raised" /\ e.outcome.exc = "CollectorError"

\* C24: a request with an unknown output format never returns a rendering;
\* it ends with an exception that is not the one an ordinary fetch failure is
\* reported with, which leaves compute_graph uncaught and reaches the caller.
C24_UnknownFormatFailsLoudly ==
  \A i \in CallsWith("bogus") :
    /\ buildLog[i].outcome.kind = "raised"
    /\ ~FailedLikeFetch(buildLog[i])
    /\ i <= Len(callLog) => callLog[i] = buildLog[i].outcome

\* C24 witness: a call with the unknown format 'bogus' has built the graph of
\* the node, its pod and its container, has stored the relation timestamps
\* and has ended with the CollectorError of dump, with nothing on the error
\* queue
C24_Witness ==
  \E i \in CallsWith("bogus") :
    /\ buildLog[i].world = WorldFull
    /\ buildLog[i].stored
    /\ buildLog[i].errors = <<>>
    /\ buildLog[i].outcome.kind = "raised"
    /\ buildLog[i].outcome.exc = "CollectorError"
    /\ buildLog[i].outcome.msg[1] = "invalid dump() output_format"

\* C25: the output format 'graph' is accepted: a call with it that meets no
\* error returns the envelope that dump gives for 'context_graph' on the
\* same graph: success, timestamp, resources and relations.
C25_GraphFormatAccepted ==
  /\ \A b \in Running :
        build[b].output_format = "graph" /\ build[b].pc = "cleanup"
        /\ build[b].errors = <<>> /\ build[b].stored
        => build[b].outcome = dump(graph[b], "context_graph", clock)
  /\ \A i \in CallsWith("graph") :
        buildLog[i].stored
        => /\ buildLog[i].outcome.kind = "returned"
           /\ buildLog[i].outcome.success

\* C25 witness: a call with the format 'graph' has built the graph of the
\* node, its pod and its container without error and has ended with the
\* CollectorError of dump
C25_Witness ==
  \E i \in CallsWith("graph") :
    /\ buildLog[i].world = WorldFull
    /\ buildLog[i].stored
    /\ buildLog[i].outcome.kind = "raised"
    /\ buildLog[i].outcome.msg = <<"invalid dump() output_format", "graph", "">>

\* the place of an id in the order of the id strings 'Type:name'
IdRank(id) ==
  LET order == << <<"Cluster", "c">>, <<"Container", "c1">>, <<"Node", "n1">>,
                  <<"Node", "n2">>, <<"Pod", "p1">> >>
  IN  CHOOSE k \in 1..Len(order) : order[k] = id

\* C26: a rendering lists the resources in the order of their ids and the
\* relations in the order of (source, target), and two calls over the same
\* backend data return the same sequence of resources and the same sequence
\* of relations, however the worker threads interleave.
C26_RenderOrderIsSorted ==
  /\ \A i \in CallsWith("context_graph") :
        buildLog[i].outcome.kind = "returned"
        => LET res == buildLog[i].outcome.resources
               rel == buildLog[i].outcome.relations
           IN  /\ \A j, k \in 1..Len(res) :
                     j < k => IdRank(res[j].id) < IdRank(res[k].id)
               /\ \A j, k \in 1..Len(rel) :
                     j < k =>
                       \/ IdRank(rel[j].source) < IdRank(rel[k].source)
                       \/ /\ rel[j].source = rel[k].source
                          /\ IdRank(rel[j].target) < IdRank(rel[k].target)
  /\ \A i, j \in CallsWith("context_graph") :
        /\ buildLog[i].outcome.kind = "returned"
        /\ buildLog[j].outcome.kind = "returned"
        => /\ [k \in 1..Len(buildLog[i].outcome.resources) |->
                 buildLog[i].outcome.resources[k].id]
              = [k \in 1..Len(buildLog[j].outcome.resources) |->
                 buildLog[j].outcome.resources[k].id]
           /\ [k \in 1..Len(buildLog[i].outcome.relations) |->
                 Triple(buildLog[i].outcome.relations[k])]
              = [k \in 1..Len(buildLog[j].outcome.relations) |->
                 Triple(buildLog[j].outcome.relations[k])]

\* C26 witness: two calls over the same two nodes have returned the two Node
\* resources in opposite orders
C26_Witness ==
  \E i, j \in CallsWith("context_graph") :
    /\ i < j
    /\ buildLog[i].outcome.kind = "returned"
    /\ buildLog[j].outcome.kind = "returned"
    /\ Len(buildLog[i].outcome.resources) = 3
    /\ Len(buildLog[j].outcome.resources) = 3
    /\ buildLog[i].outcome.resources[2].id = <<"Node", "n1">>
    /\ buildLog[j].outcome.resources[2].id = <<"Node", "n2">>
    /\ buildLog[j].outcome.resources[3].id = <<"Node", "n1">>

\* C27: the answer of /cluster and of /cluster/resources is either the
\* envelope of a successful build (success true, timestamp, resources, and
\* relations for /cluster) or the failure envelope (success false, timestamp,
\* error_message): when compute_graph raised, whatever the exception, the
\* answer is the failure envelope, which holds no part of the graph.
C27_UniformEnvelope ==
  \A i \in 1..Len(callLog) :
    buildLog[i].output_format \in {"context_graph", "resources"}
    => IF buildLog[i].outcome.kind = "returned"
         THEN /\ callLog[i].success
              /\ callLog[i].resources = buildLog[i].outcome.resources
              /\ callLog[i].timestamp = buildLog[i].outcome.timestamp
              /\ DOMAIN callLog[i] =
                   {"kind", "success", "timestamp", "resources"}
                   \cup (IF buildLog[i].output_format = "context_graph"
                         THEN {"relations"} ELSE {})
         ELSE /\ DOMAIN callLog[i] = {"success", "timestamp", "error_message"}
              /\ ~callLog[i].success
              /\ callLog[i].error_message # <<>>

\* C27 witness: /cluster has answered with the failure envelope after an
\* exception that is not a CollectorError, raised in the builder thread
C27_Witness ==
  \E i \in 1..Len(callLog) :
    /\ buildLog[i].output_format = "context_graph"
    /\ buildLog[i].outcome.kind = "raised"
    /\ buildLog[i].outcome.exc = "TypeError"
    /\ ~callLog[i].success
    /\ callLog[i].error_message[3] = "TypeError"

----------------------------------------------------------------------------
(* Properties of the task functions, checked under SpecEdge. *)

\* the relations of the graph of the build that go to the target
RelationsTo(target) ==
  { i \in 1..Len(graph["A"].context_relations) :
      graph["A"].context_relations[i].target = target }

\* the resources of the graph of the build with the id
ResourcesWith(rid) ==
  { i \in 1..Len(graph["A"].context_resources) :
      graph["A"].context_resources[i].id = rid }

\* the relations to the target are exactly one, of this source and kind
OnlyRelationTo(target, source, kind) ==
  /\ Cardinality(RelationsTo(target)) = 1
  /\ \A i \in RelationsTo(target) :
        /\ graph["A"].context_relations[i].source = source
        /\ graph["A"].context_relations[i].type = kind

\* C28: a _do_compute_pod call adds at most one relation that goes to the
\* pod: the node runs the pod when the pod's nodeName is valid and is the
\* node of the call; the cluster contains the pod when the pod has no valid
\* nodeName; when the nodeName is another node the call raises
\* CollectorError and adds no relation, after it has added the Pod resource.
C28_PodRelation ==
  lastCall.op = "_do_compute_pod" /\ build["A"].pc # "idle"
  => LET pod == lastCall.pod
         pod_guid == <<"Pod", pod.id>>
         valid == pod.nodeName # NoneStr /\ pod.nodeName # ""
         same == lastCall.node_guid = <<"Node", pod.nodeName>>
     IN  /\ Cardinality(RelationsTo(pod_guid)) <= 1
         /\ build["A"].workers[1].state # "running"
            => /\ Cardinality(ResourcesWith(pod_guid)) = 1
               /\ valid /\ same
                  => /\ OnlyRelationTo(pod_guid, lastCall.node_guid, "runs")
                     /\ build["A"].errors = <<>>
               /\ ~valid
                  => /\ OnlyRelationTo(pod_guid, <<"Cluster", "c">>,
                                       "contains")
                     /\ build["A"].errors = <<>>
               /\ valid /\ ~same
                  => /\ RelationsTo(pod_guid) = {}
                     /\ Len(build["A"].errors) = 1
                     /\ build["A"].errors[1].msg[1] = "host mismatch"

\* C28 witness: the call for the node n1 with a pod whose nodeName is n2 has
\* raised: the Pod resource is in the graph, no relation goes to the pod
C28_Witness ==
  /\ lastCall.op = "_do_compute_pod"
  /\ lastCall.node_guid = <<"Node", "n1">>
  /\ lastCall.pod.nodeName = "n2"
  /\ build["A"].pc = "collect"
  /\ Len(build["A"].errors) = 1
  /\ ResourcesWith(<<"Pod", "p1">>) # {}
  /\ RelationsTo(<<"Pod", "p1">>) = {}

C30_BadSelectorNotFatal ==
  \A i \in 1..Len(buildLog) :
    LET e == buildLog[i]
        bad == { <<"Service", e.world.services[k].id>> :
                   k \in { k \in 1..Len(e.world.services) :
                             e.world.services[k].selector
                               \in {"missing", "invalid"} } }
               \cup
               { <<"ReplicationController", e.world.rcontrollers[k].id>> :
                   k \in { k \in 1..Len(e.world.rcontrollers) :
                             e.world.rcontrollers[k].selector
                               \in {"missing", "invalid"} } }
    IN  bad # {}
        => /\ e.errors = <<>>
           /\ e.outcome.kind = "returned"
           /\ \A guid \in bad :
                 /\ \E r \in ResourcesOf(e) : r.id = guid
                 /\ \E r \in RelationsOf(e) :
                       r.target = guid /\ r.type = "contains"
                 /\ \A r \in RelationsOf(e) : r.source # guid

\* C30 witness: the build over a service whose selector is not a dictionary
\* and a replication controller with a dictionary selector has ended with
\* the error of the service task
C30_Witness ==
  \E i \in 1..Len(buildLog) :
    /\ Len(buildLog[i].world.services) = 1
    /\ buildLog[i].world.services[1].selector = "invalid"
    /\ buildLog[i].world.rcontrollers[1].selector = "app"
    /\ Len(buildLog[i].errors) = 1
    /\ buildLog[i].errors[1].msg[1] = "invalid selector"
    /\ buildLog[i].outcome.kind = "raised"

----------------------------------------------------------------------------
(* The map of relation timestamps the global state keeps between builds. *)

\* C31: after a build that ended without error on a non-empty node list, the
\* map of relation timestamps held by the global state is the map of that
\* build: its keys are the triples of the relations of the returned graph,
\* each with the timestamp of its relation, and no other triple (none of an
\* earlier build that this build did not add again).
C31_StoredMapIsBuildMap ==
  \A i \in 1..Len(buildLog) :
    LET e == buildLog[i]
    IN  (e.stored /\ e.outcome.kind = "returned")
        => /\ DOMAIN e.kept = { Triple(r) : r \in RelationsOf(e) }
           /\ \A r \in RelationsOf(e) : e.kept[Triple(r)] = r.timestamp

\* C31 witness: a build stored its map, which holds a triple with the
\* timestamp inherited from the build before and lacks a triple that the
\* build before had stored
C31_Witness ==
  \E i \in 2..Len(buildLog) :
    LET e == buildLog[i]
    IN  /\ e.stored
        /\ e.outcome.kind = "returned"
        /\ e.world.nodes # <<>>
        /\ buildLog[i - 1].stored
        /\ e.previous = buildLog[i - 1].kept
        /\ \E k \in DOMAIN e.previous : k \notin DOMAIN e.kept
        /\ \E k \in DOMAIN e.previous :
              k \in DOMAIN e.kept /\ e.kept[k] = e.previous[k]

----------------------------------------------------------------------------
(* The order of the tasks of a build in test mode. *)

\* a sequence without the later occurrences of its elements
RECURSIVE FirstOccurrences(_)
FirstOccurrences(s) ==
  IF s = <<>> THEN <<>>
  ELSE LET front == FirstOccurrences(SubSeq(s, 1, Len(s) - 1))
       IN  IF \E i \in 1..(Len(s) - 1) : s[i] = s[Len(s)]
             THEN front ELSE Append(front, s[Len(s)])

\* the calls on the graph of the tasks of a build over w in test mode, when
\* the tasks run one after the other in the order of the builder's puts
ProgramOrderOps(w) ==
  LET cluster_guid == <<"Cluster", node_id_to_cluster_name(w.nodes[1])>>
      puts == SelectSeq(BuilderScript(w), LAMBDA o : o.op = "put")
  IN  Flatten([i \in 1..Len(puts) |->
        TaskOps(w, TRUE, cluster_guid, InitialTimestamp,
                Task(i, puts[i].func, puts[i].id, puts[i].parent))])

\* the ids of the resources and the triples of the relations that program
\* order gives to the graph
ProgramOrderResources(w) ==
  LET res == SelectSeq(ProgramOrderOps(w), LAMBDA o : o.op = "res")
  IN  FirstOccurrences(
        << <<"Cluster", node_id_to_cluster_name(w.nodes[1])>> >> \o
        [i \in 1..Len(res) |-> res[i].rid])
ProgramOrderRelations(w) ==
  LET rel == SelectSeq(ProgramOrderOps(w), LAMBDA o : o.op = "rel")
  IN  [i \in 1..Len(rel) |-> <<rel[i].source, rel[i].target, rel[i].kind>>]

\* the graph of every returned build in test mode is in program order
TestModeGraphInProgramOrder ==
  \A i \in 1..Len(buildLog) :
    LET e == buildLog[i]
    IN  (gs.testing /\ e.outcome.kind = "returned" /\ e.world.nodes # <<>>)
        => /\ [k \in 1..Len(e.outcome.resources) |-> e.outcome.resources[k].id]
                = ProgramOrderResources(e.world)
           /\ [k \in 1..Len(e.outcome.relations) |->
                 Triple(e.outcome.relations[k])]
                = ProgramOrderRelations(e.world)

\* in test mode a put has a higher priority than every task put before, and
\* the one worker takes a task only when it has finished the task before,
\* and takes the task that was put first
TestModeStepInOrder ==
  \A b \in Callers :
    (gs.testing /\ build'[b].nworkers > 0) =>
      /\ build'[b].nworkers = 1
      /\ \A t \in build'[b].input_queue.tasks \ build[b].input_queue.tasks :
           /\ \A u \in build[b].input_queue.tasks : u.priority < t.priority
           /\ build[b].workers[1].task.priority < t.priority
      /\ ( /\ build[b].nworkers = 1
           /\ build'[b].workers[1].task # build[b].workers[1].task )
         => /\ build[b].workers[1].state = "idle"
            /\ build'[b].workers[1].task \in build[b].input_queue.tasks
            /\ build[b].workers[1].task.priority
                 < build'[b].workers[1].task.priority
            /\ \A u \in build'[b].input_queue.tasks :
                 build'[b].workers[1].task.priority < u.priority

\* C32: in test mode a build has one worker, its tasks are executed one at
\* a time in the order in which they were enqueued, and the resources and
\* relations of the returned graph are in the one order that running the
\* tasks in the order of the builder's puts gives, on every run.
C32_TestModeDeterministicOrder ==
  []TestModeGraphInProgramOrder /\ [][TestModeStepInOrder]_vars

\* C32 witness: a build of the cluster of three nodes returned in test mode,
\* its one worker having run the three node tasks and the master-pods task
C32_Witness ==
  /\ gs.testing
  /\ Len(buildLog) = 1
  /\ buildLog[1].outcome.kind = "returned"
  /\ Len(buildLog[1].world.nodes) = 3
  /\ Len(buildLog[1].outcome.resources) = 16
  /\ Len(buildLog[1].outcome.relations) = 15

----------------------------------------------------------------------------
(* The teardown of the worker pool, checked under SpecPool. *)

\* the tasks of the input queue, as the (function, id) pairs of the puts
QueuedTasks(b) == { <<t.func, t.id>> : t \in build[b].input_queue.tasks }

\* worker w of build b takes a task from the input queue in this step
StartsTask(b, w) ==
  /\ w \in 1..build[b].nworkers
  /\ build[b].workers[w].state = "idle"
  /\ build'[b].pc # "idle"
  /\ build'[b].workers[w].state \in {"running", "finishing"}

\* when compute_graph is about to return or raise, every worker has exited
\* and every task that was put has either run to its task_done or is still
\* in the input queue, never started
TeardownLeavesNoTaskHalfDone ==
  \A b \in Callers :
    build[b].pc = "exit" =>
      /\ \A w \in 1..build[b].nworkers : build[b].workers[w].state = "exited"
      /\ QueuedTasks(b) = build[b].puts \ build[b].done
      /\ QueuedTasks(b) \cap build[b].done = {}

\* a worker takes no task while a sentinel is in the queue, and none once
\* the cleanup has put all its sentinels; a running task is not interrupted
\* by the cleanup: the worker's next step after a task is its task_done
NoTaskStartsBehindSentinel ==
  \A b \in Callers : \A w \in 1..MAX_CONCURRENT_WORKERS :
    /\ StartsTask(b, w) =>
         /\ build[b].input_queue.sentinels = 0
         /\ ~( build[b].pc \in {"cleanup", "exit"}
               /\ build[b].sentinels_put >= build[b].nworkers )
    /\ ( /\ w \in 1..build[b].nworkers
         /\ build[b].workers[w].state \in {"running", "finishing"}
         /\ build'[b].pc # "idle" )
       => build'[b].workers[w].state \in {"running", "finishing", "idle"}

\* C33: when _do_compute_graph raises in the builder thread while tasks are
\* queued, the cleanup lets the tasks in flight run to their end, no worker
\* takes a queued task once the sentinels are in the queue (a sentinel
\* sorts ahead of every task), and compute_graph returns control with all
\* workers exited and the tasks left in the queue never started.
C33_TeardownDiscardsQueuedTasks ==
  []TeardownLeavesNoTaskHalfDone /\ [][NoTaskStartsBehindSentinel]_vars

\* C33 witness: the builder thread raised before the join, with no task
\* error; at the end of the cleanup a task that was in flight at the raise
\* has run to its end and a task is left in the queue, never started
C33_Witness ==
  \E b \in Callers :
    /\ build[b].pc = "exit"
    /\ build[b].outcome.kind = "raised"
    /\ ~build[b].joined
    /\ build[b].errors = <<>>
    /\ build[b].done # {}
    /\ QueuedTasks(b) # {}
    /\ \A w \in 1..build[b].nworkers : build[b].workers[w].state = "exited"

----------------------------------------------------------------------------
(* docker_proxy.py: the minion proxy and its containers cache.  clock is   *)
(* the wall clock in seconds.  The Docker daemon answers every request; a  *)
(* fetch of the information of one container takes no time or a second.    *)
(* time.sleep returns at the time asked for, or a second later.  build is  *)
(* the periodic worker thread, callLog the requests answered so far.       *)

\* main: the cache is created and the worker thread is started; world is
\* the Docker daemon with its containers
InitProxy ==
  /\ clock = 0
  /\ graph = <<>>
  /\ callLog = <<>>
  /\ lastCall = [op |-> "none"]
  /\ world \in { [containers |-> cs] : cs \in { <<"c1">>, <<"c1", "c2">> } }
  /\ gs = [cache |-> NewSimpleCache(MAX_CONTAINER_AGE_SECONDS,
                                    MAX_CLEANUP_AGE_SECONDS)]
  /\ build = [pc |-> "fill_cache", todo |-> <<>>, wake |-> 0, fills |-> 0,
              filled |-> {}, filling |-> {}]
  /\ buildLog = <<>>

\* fetch: the information of one container that the Docker daemon returns;
\* the request '/containers/{cid}/json' is the tuple <<"/containers", cid, "json">>
ContainerInfo(cid) == [content |-> cid, timestamp |-> "t1"]

\* worker: fill_cache is called, at startup and after every sleep, and
\* fetches the list of the containers
ProxyFillCache ==
  /\ build.pc = "fill_cache"
  /\ build.fills < MaxFills
  /\ build' = [build EXCEPT !.pc = "update", !.todo = world.containers,
                            !.filling = {}]
  /\ UNCHANGED <<clock, graph, callLog, lastCall, world, gs, buildLog>>

\* fill_cache: the information of the next container of the list is fetched
\* and stored with the time after the fetch; after the last container the
\* worker sleeps MAX_CONTAINER_AGE_SECONDS
ProxyFillOne ==
  /\ build.pc = "update"
  /\ \E duration \in {0, 1} :
       LET cid == Head(build.todo)
           rest == Tail(build.todo)
           ts == clock + duration
       IN  /\ clock' = ts
           /\ gs' = [gs EXCEPT !.cache =
                       cache_update(@, <<"/containers", cid, "json">>,
                                    ContainerInfo(cid), ts)]
           /\ build' =
                IF rest # <<>>
                  THEN [build EXCEPT !.todo = rest,
                                     !.filling = @ \cup {cid}]
                  ELSE [build EXCEPT !.todo = rest, !.pc = "sleep",
                                     !.wake = ts + MAX_CONTAINER_AGE_SECONDS,
                                     !.fills = @ + 1,
                                     !.filled = build.filling \cup {cid},
                                     !.filling = {}]
  /\ UNCHANGED <<graph, callLog, lastCall, world, buildLog>>

\* time passes while the worker sleeps, up to the second before the end of
\* the sleep, or up to its end, when the worker runs again at once or a
\* second later
ProxyPass ==
  /\ build.pc = "sleep"
  /\ \/ /\ clock < build.wake - 1
        /\ clock' = build.wake - 1
        /\ UNCHANGED build
     \/ /\ clock < build.wake
        /\ clock' = build.wake
        /\ UNCHANGED build
     \/ /\ clock = build.wake
        /\ \E late \in {0, 1} : clock' = clock + late
        /\ build' = [build EXCEPT !.pc = "fill_cache"]
  /\ UNCHANGED <<graph, callLog, lastCall, world, gs, buildLog>>

\* get_one_container: get_response with the containers cache.  A hit
\* returns the cached value; a miss fetches the information, stores it and
\* returns it
ProxyRequest ==
  /\ Len(callLog) < MaxRequests
  /\ \E cid \in {"c1", "c2"} :
       LET req == <<"/containers", cid, "json">>
           found == cache_lookup(gs.cache, req, clock)
           hit == found # Miss
       IN  /\ gs' = IF hit THEN gs
                    ELSE [gs EXCEPT !.cache =
                            cache_update(@, req, ContainerInfo(cid), clock)]
           /\ callLog' = Append(callLog,
                [ req |-> req, now |-> clock, hit |-> hit,
                  fills |-> build.fills,
                  filled |-> cid \in build.filled,
                  response |-> IF hit THEN found[1] ELSE ContainerInfo(cid) ])
           /\ lastCall' = [op |-> "get_one_container", cid |-> cid]
  /\ UNCHANGED <<clock, graph, world, build, buildLog>>

NextProxy ==
  \/ ProxyFillCache
  \/ ProxyFillOne
  \/ ProxyPass
  \/ ProxyRequest

SpecProxy == InitProxy /\ [][NextProxy]_vars

\* C34: once the containers cache has been filled at startup, every request
\* for the information of a container that was present at the last fill is
\* a cache hit.
C34_EveryRequestHitsTheCache ==
  \A i \in 1..Len(callLog) :
    (callLog[i].fills >= 1 /\ callLog[i].filled) => callLog[i].hit

\* C34 witness: a request for a container of the startup fill was answered
\* from the cache, later than the fill, and returned the information that
\* the fill stored
C34_Witness ==
  \E i \in 1..Len(callLog) :
    /\ callLog[i].fills = 1
    /\ callLog[i].filled
    /\ callLog[i].hit
    /\ callLog[i].now >= MAX_CONTAINER_AGE_SECONDS - 1
    /\ callLog[i].response = ContainerInfo(callLog[i].req[2])

----------------------------------------------------------------------------
(* add_relation with metadata, checked under SpecGraph. *)

\* the step is an add_relation call that was given a metadata dictionary
AddRelationWithMetadata ==
  /\ callLog' # callLog
  /\ lastCall'.op = "add_relation"
  /\ lastCall'.metadata # NoneStr

\* C35: add_relation called with a metadata dictionary appends exactly one
\* relation, whose annotations.metadata is that dictionary and whose
\* annotations.label is the label given, or the kind when none is given.
C35_MetadataRelationAppended ==
  [][ AddRelationWithMetadata =>
        LET before == graph[TheGraph].context_relations
            after == graph'[TheGraph].context_relations
        IN  /\ Len(after) = Len(before) + 1
            /\ SubSeq(after, 1, Len(before)) = before
            /\ Triple(after[Len(after)]) = lastCall'.key
            /\ "metadata" \in DOMAIN after[Len(after)].annotations
            /\ after[Len(after)].annotations.metadata = lastCall'.metadata
            /\ after[Len(after)].annotations.label =
                 IF lastCall'.label # NoneStr THEN lastCall'.label
                 ELSE lastCall'.key[3] ]_vars

\* C35 witness: add_relation was called with a metadata dictionary on a new
\* graph; no relation is in the list and the triple is in the current map
C35_Witness ==
  /\ Len(callLog) = 1
  /\ lastCall.op = "add_relation"
  /\ lastCall.metadata # NoneStr
  /\ graph[TheGraph].context_relations = <<>>
  /\ lastCall.key \in DOMAIN graph[TheGraph].current_relations_to_timestamps

\* the positions in the relation list of the relations with the given triple
PositionsOf(g, key) ==
  { i \in 1..Len(g.context_relations) : Triple(g.context_relations[i]) = key }

\* C36: in every reachable state of a ContextGraph the current map of
\* relation timestamps and the relation list agree: a triple is a key of
\* the map if and only if a relation with that triple is in the list, and
\* the map gives it the timestamp of the last such relation.
C36_CurrentMapAgreesWithRelations ==
  LET g == graph[TheGraph]
      current == g.current_relations_to_timestamps
  IN  /\ DOMAIN current =
           { Triple(g.context_relations[i]) : i \in 1..Len(g.context_relations) }
      /\ \A key \in DOMAIN current :
           \A i \in PositionsOf(g, key) :
             (\A j \in PositionsOf(g, key) : j <= i)
               => current[key] = g.context_relations[i].timestamp

\* C36 witness: after calls of add_relation without metadata, two of them for
\* the same triple with different timestamps, the map and the list agree
C36_Witness ==
  LET g == graph[TheGraph]
  IN  /\ C36_CurrentMapAgreesWithRelations
      /\ \E key \in DOMAIN g.current_relations_to_timestamps :
           \E i, j \in PositionsOf(g, key) :
             /\ i < j
             /\ g.context_relations[i].timestamp
                  < g.context_relations[j].timestamp
             /\ g.current_relations_to_timestamps[key]
                  = g.context_relations[j].timestamp

----------------------------------------------------------------------------
(* The kept map of relation timestamps and the builds that do not succeed. *)

\* C37: a build that fails (by the error of a task or by an exception in the
\* builder thread) and a build that finds an empty node list leave the map
\* of relation timestamps of the global state as it was when the build
\* started.
C37_FailedBuildKeepsMap ==
  \A i \in 1..Len(buildLog) :
    LET e == buildLog[i]
    IN  (e.outcome.kind = "raised" \/ NoNodes(e.world))
        => e.kept = e.previous

\* C37 witness: a build over a node with a pod ended with the error of a
\* task, after the join, and the kept map is the one it started with
C37_Witness ==
  \E i \in 1..Len(buildLog) :
    LET e == buildLog[i]
    IN  /\ e.outcome.kind = "raised"
        /\ e.errors # <<>>
        /\ e.joined
        /\ ~e.stored
        /\ e.kept = e.previous

----------------------------------------------------------------------------
(* Builds that overlap inside the gate, checked under SpecGate. *)

\* the calls i and j of the log, i ended first, overlapped: j had entered
\* the gate when i ended
Overlapped(i, j) == i < j /\ buildLog[j].entered < i

\* C38: when two builds overlap inside the gate, a relation triple that
\* both report has one timestamp: the build that ends later reports it with
\* the timestamp reported by the build that ended earlier, and the map
\* kept when the later one ends holds that timestamp.
C38_OverlappingBuildsAgree ==
  \A i, j \in 1..Len(buildLog) :
    Overlapped(i, j) =>
      \A r1 \in RelationsOf(buildLog[i]) :
        /\ \A r2 \in RelationsOf(buildLog[j]) :
             Triple(r1) = Triple(r2) => r1.timestamp = r2.timestamp
        /\ (buildLog[j].stored /\ Triple(r1) \in DOMAIN buildLog[j].kept)
             => buildLog[j].kept[Triple(r1)] = r1.timestamp

\* C38 witness: two builds that overlapped both returned a relation with
\* the timestamp that an earlier build had stored for its triple
C38_Witness ==
  \E i, j \in 1..Len(buildLog) :
    /\ Overlapped(i, j)
    /\ buildLog[i].entered >= 1
    /\ \E r1 \in RelationsOf(buildLog[i]), r2 \in RelationsOf(buildLog[j]) :
         /\ r1 = r2
         /\ Triple(r1) \in DOMAIN buildLog[i].previous
         /\ buildLog[i].previous[Triple(r1)] = r1.timestamp
         /\ buildLog[j].kept[Triple(r1)] = r1.timestamp

----------------------------------------------------------------------------
(* SpecRace: two threads call kubernetes.get_nodes at the same time.  Each  *)
(* SimpleCache method runs under the lock of the cache, so it is one step.  *)
(* build is the position and the locals of each thread (with the number of *)
(* updates that had run when it looked up), callLog the update calls in    *)
(* the order in which they ran, clock the wall clock.                      *)

\* the nodes cache is cold, or holds an entry stored at time 0; the ages are
\* in the order of the program's (max age 10 s, cleanup age 3600 s)
InitRace ==
  /\ clock = 0
  /\ graph = <<>>
  /\ callLog = <<>>
  /\ lastCall = [op |-> "none"]
  /\ world = [nodes |-> <<>>]
  /\ \E ages \in { <<1, 2>>, <<1, MaxTime + 2>> } :
       \E old \in {{}} \cup { {v} : v \in CacheValues } :
         gs = [cache |->
                 [NewSimpleCache(ages[1], ages[2]) EXCEPT !.label_to_tuple =
                    [label \in { "" : v \in old } |->
                       [ update_timestamp |-> 0, create_timestamp |-> 0,
                         value |-> CHOOSE v \in old : TRUE ]]]]
  /\ build = [t \in {"t1", "t2"} |->
                [pc |-> "lookup", value |-> Miss[1], now |-> None,
                 ret |-> Miss[1], updates_before_lookup |-> 0]]
  /\ buildLog = <<>>

\* get_nodes: the lookup; a hit returns the cached nodes
RaceLookup(t) ==
  /\ build[t].pc = "lookup"
  /\ LET found == cache_lookup(gs.cache, "", clock)
     IN  build' = [build EXCEPT ![t] =
           IF found[2] # None
             THEN [@ EXCEPT !.pc = "hit", !.ret = found[1],
                            !.updates_before_lookup = Len(callLog)]
             ELSE [@ EXCEPT !.pc = "fetch",
                            !.updates_before_lookup = Len(callLog)]]
  /\ UNCHANGED <<clock, graph, callLog, lastCall, world, gs, buildLog>>

\* get_nodes: the nodes are fetched and wrapped, and the time is read
RaceFetch(t) ==
  /\ build[t].pc = "fetch"
  /\ \E v \in CacheValues :
       build' = [build EXCEPT ![t] =
                   [@ EXCEPT !.pc = "update", !.value = v, !.now = clock]]
  /\ UNCHANGED <<clock, graph, callLog, lastCall, world, gs, buildLog>>

\* get_nodes: the update of the cache, whose result is returned
RaceUpdate(t) ==
  /\ build[t].pc = "update"
  /\ gs' = [gs EXCEPT !.cache =
              cache_update(@, "", build[t].value, build[t].now)]
  /\ build' = [build EXCEPT ![t] =
       [@ EXCEPT !.pc = "updated",
                 !.ret = cache_update_returns(gs.cache, "", build[t].value,
                                              build[t].now)]]
  /\ callLog' = Append(callLog,
       [ thread |-> t, value |-> build[t].value, ts |-> build[t].now,
         ret |-> cache_update_returns(gs.cache, "", build[t].value,
                                      build[t].now),
         entry |-> gs'.cache.label_to_tuple[""] ])
  /\ UNCHANGED <<clock, graph, lastCall, world, buildLog>>

NextRace ==
  \/ \E t \in {"t1", "t2"} : RaceLookup(t)
  \/ \E t \in {"t1", "t2"} : RaceFetch(t)
  \/ \E t \in {"t1", "t2"} : RaceUpdate(t)
  \/ CacheTick

SpecRace == InitRace /\ [][NextRace]_vars

\* both threads missed before either had updated, fetched semantically
\* equal values and updated
BothUpdatedEqual ==
  /\ Len(callLog) = 2
  /\ \A t \in {"t1", "t2"} : build[t].updates_before_lookup = 0
  /\ timeless_json_hash(callLog[1].value) = timeless_json_hash(callLog[2].value)

\* the cleanup of the second update removed the entry the first one left
SecondCleanupRemoves ==
  callLog[1].entry.create_timestamp
    <= callLog[2].ts - gs.cache.data_cleanup_age_seconds

\* C39 as stated: when two threads miss the same key, fetch semantically
\* equal values and both update, the entry ends with the value and the
\* create timestamp written by the update that ran first, and both callers
\* receive semantically equal values.
C39_FirstUpdateWins ==
  BothUpdatedEqual =>
    /\ gs.cache.label_to_tuple[""].value = callLog[1].entry.value
    /\ gs.cache.label_to_tuple[""].create_timestamp
         = callLog[1].entry.create_timestamp
    /\ timeless_json_hash(callLog[1].ret) = timeless_json_hash(callLog[2].ret)

\* C39, amended: the entry ends with the value and the create timestamp
\* that the first update left, unless that create timestamp is cleanup-age
\* old at the time of the second update: then the second update removes
\* the entry and stores its own value with its own time.  Both callers
\* receive semantically equal values in either case, and the update
\* timestamp is the time passed by the second update.
C39_FirstUpdateWinsUnlessCleaned ==
  BothUpdatedEqual =>
    /\ IF SecondCleanupRemoves
         THEN /\ gs.cache.label_to_tuple[""].value = callLog[2].value
              /\ gs.cache.label_to_tuple[""].create_timestamp = callLog[2].ts
         ELSE /\ gs.cache.label_to_tuple[""].value = callLog[1].entry.value
              /\ gs.cache.label_to_tuple[""].create_timestamp
                   = callLog[1].entry.create_timestamp
    /\ gs.cache.label_to_tuple[""].update_timestamp = callLog[2].ts
    /\ timeless_json_hash(callLog[1].ret) = timeless_json_hash(callLog[2].ret)

\* C39 witness: both threads looked up the cold key before either updated,
\* fetched values that differ only in their timestamp attribute, and the
\* entry holds the value and the time of the first update, which the
\* second caller received
C39_Witness ==
  /\ BothUpdatedEqual
  /\ ~SecondCleanupRemoves
  /\ callLog[1].value # callLog[2].value
  /\ callLog[1].ts < callLog[2].ts
  /\ gs.cache.label_to_tuple[""].value = callLog[1].value
  /\ gs.cache.label_to_tuple[""].create_timestamp = callLog[1].ts
  /\ callLog[2].ret = callLog[1].value

----------------------------------------------------------------------------
(* SpecLocks: the locks of the collector.  Every lock is a threading.Lock  *)
(* (not reentrant) taken and released inside one method.  A call is the    *)
(* sequence of its events in program order: acquire and release of a lock, *)
(* or a step on a queue or a fetch from the backend.  build is, for each   *)
(* thread, the events it has yet to run and the locks it holds.            *)

\* a mutant of LockEvents: the cache logs while it holds its lock
LockEventsLoggingInside(call, g) ==
  << [e |-> "acquire", lock |-> <<call[1], "_lock">>],
     [e |-> "acquire", lock |-> <<"gs", "_logger_lock">>],
     [e |-> "release", lock |-> <<"gs", "_logger_lock">>],
     [e |-> "release", lock |-> <<call[1], "_lock">>] >>

\* the events of a call <<object, method>> made for the build with graph g
LockEvents(call, g) ==
  LET Locked(lock) == << [e |-> "acquire", lock |-> lock],
                         [e |-> "release", lock |-> lock] >>
  IN  CASE call[1] = "g" -> Locked(<<g, "_lock">>)
        [] call[1] \in {"nodes_cache", "pods_cache"} ->
             Locked(<<call[1], "_lock">>)
        [] call = <<"gs", "get_random_priority">> ->
             Locked(<<"gs", "_random_lock">>)
        [] call[1] = "gs" -> Locked(<<"gs", "_logger_lock">>)
        [] OTHER -> << [e |-> call[2], lock |-> <<call[1], NoneStr>>] >>

\* the threads: the builder thread and a worker of one build, which run
\* compute_graph and a _do_compute_node task in production mode on cold
\* caches, and a worker of another build running the same task
InitLocks ==
  LET get_nodes == << <<"nodes_cache", "lookup">>, <<"kubernetes", "fetch">>,
                      <<"nodes_cache", "update">>, <<"gs", "logger_info">> >>
      get_pods == << <<"pods_cache", "lookup">>, <<"kubernetes", "fetch">>,
                     <<"pods_cache", "update">>, <<"gs", "logger_info">> >>
      builder == get_nodes \o
                 << <<"gs", "logger_info">>, <<"g", "set_version">>,
                    <<"g", "set_relations_to_timestamps">>,
                    <<"nodes_cache", "lookup">>, <<"gs", "logger_info">>,
                    <<"g", "set_title">>, <<"g", "add_resource">>,
                    <<"gs", "get_random_priority">>,
                    <<"input_queue", "put">>, <<"input_queue", "join">>,
                    <<"g", "get_relations_to_timestamps">>,
                    <<"g", "set_metadata">>, <<"g", "dump">>,
                    <<"input_queue", "put">> >>
      task == << <<"input_queue", "get">>, <<"g", "add_resource">>,
                 <<"g", "add_relation">> >> \o get_pods \o
              << <<"g", "add_resource">>, <<"g", "add_relation">>,
                 <<"gs", "logger_error">>,
                 <<"gs", "get_random_priority">>, <<"input_queue", "put">>,
                 <<"input_queue", "task_done">>, <<"input_queue", "get">> >>
      events(calls, g) ==
        Flatten([i \in 1..Len(calls) |-> LockEvents(calls[i], g)])
  IN
  /\ clock = 0
  /\ graph = <<>>
  /\ callLog = <<>>
  /\ lastCall = [op |-> "none"]
  /\ world = [nodes |-> <<>>]
  /\ gs = [testing |-> FALSE]
  /\ build = [t \in {"builder A", "worker A", "worker B"} |->
                [ events |-> IF t = "builder A" THEN events(builder, "g A")
                             ELSE IF t = "worker A" THEN events(task, "g A")
                             ELSE events(task, "g B"),
                  held |-> {} ]]
  /\ buildLog = <<>>

\* the locks held by some thread
HeldLocks == UNION { build[t].held : t \in DOMAIN build }

\* thread t can run its next event: an acquire waits for the lock
CanStep(t) ==
  /\ build[t].events # <<>>
  /\ Head(build[t].events).e = "acquire"
       => Head(build[t].events).lock \notin HeldLocks

\* thread t runs its next event
LockStep(t) ==
  /\ CanStep(t)
  /\ LET ev == Head(build[t].events)
     IN  /\ build' = [build EXCEPT
                ![t].events = Tail(@),
                ![t].held = CASE ev.e = "acquire" -> @ \cup {ev.lock}
                              [] ev.e = "release" -> @ \ {ev.lock}
                              [] OTHER -> @]
         /\ lastCall' = [op |-> ev.e, thread |-> t, lock |-> ev.lock]
  /\ UNCHANGED <<clock, graph, callLog, world, gs, buildLog>>

NextLocks == \E t \in {"builder A", "worker A", "worker B"} : LockStep(t)

SpecLocks == InitLocks /\ [][NextLocks]_vars

\* no thread holds two locks, and some thread can run unless all have ended
OneLockAndProgress ==
  /\ \A t \in DOMAIN build : Cardinality(build[t].held) <= 1
  /\ \/ \A t \in DOMAIN build : build[t].events = <<>>
     \/ \E t \in DOMAIN build : CanStep(t)

\* a step on a queue or a fetch is taken by a thread that holds no lock
NoLockAcrossQueueOrFetch ==
  \A t \in DOMAIN build :
    ( /\ build'[t].events # build[t].events
      /\ Head(build[t].events).e \notin {"acquire", "release"} )
    => build[t].held = {}

\* C40: no thread ever holds more than one of the locks (of a ContextGraph,
\* of a cache, of get_random_priority, of the logger), none is held across
\* a queue get, put or join or across a backend fetch, and the threads of
\* concurrent builds never all wait for locks.
C40_LocksAreLeaves ==
  []OneLockAndProgress /\ [][NoLockAcrossQueueOrFetch]_vars

\* C40 witness: one thread holds the logger lock, a second one waits for it
\* holding nothing, and the third holds the lock of a cache
C40_Witness ==
  \E t, u, v \in DOMAIN build :
    /\ build[t].held = {<<"gs", "_logger_lock">>}
    /\ build[u].held = {}
    /\ build[u].events # <<>>
    /\ Head(build[u].events) = [e |-> "acquire", lock |-> <<"gs", "_logger_lock">>]
    /\ build[v].held = {<<"pods_cache", "_lock">>}

====
